---- MODULE Spec2Model ----
(***************************************************************************)
(* Battle for Fun: the three game components of src/src/pages.            *)
(*                                                                         *)
(*   Game    (Game.tsx)              per-turn variant, 10x10 board         *)
(*   Game20  (Game2.tsx, l.480-1370) per-turn variant, 20x20 board, with   *)
(*                                   cities, capture and resources         *)
(*   Game2   (Game2.tsx, l.1-479)    action-point variant, 12x10 board     *)
(*                                                                         *)
(* Game and Game20 share their handlers line for line (Game20 adds the     *)
(* capture block, the capture reset in moveUnit, the income in endTurn and *)
(* the Next Unit button), so one set of definitions models both and the    *)
(* variable variant tells them apart.  The names of the Game2 component    *)
(* that clash with the per-turn ones carry the suffix 2.                   *)
(*                                                                         *)
(* Numbers.  Model A health and damage are held in hundredths (Cent), so   *)
(* that defender.defense * (defenseBonus / 100) is exact.                  *)
(***************************************************************************)
EXTENDS Integers, Sequences, FiniteSets, TLC

VARIABLES
  \* ---- per-turn variant (Game, Game20) ----
  variant,        \* "Game" | "Game20": which component is mounted
  grid,           \* useState grid: [Pos -> Tile]
  cityTerrain,    \* the one TERRAIN_TYPES.City object every City tile refers to
  selectedUnit,   \* useState selectedUnit: a copy of a Unit, or NoUnit
  currentPlayer,  \* useState currentPlayer
  movementRange,  \* useState movementRange (the set of its entries)
  attackRange,    \* useState attackRange (the set of its entries)
  gameStatus,     \* useState gameStatus
  resources,      \* useState resources (Game20)
  lastAttack,     \* observer: the attack the last command resolved, if it did
  captureRun,     \* observer: per unit id, captures made since it last moved
  turnActs,       \* observer: per unit id, moves and attack-slot actions
                  \* (attacks, captures) executed since the last End Turn
  road,           \* generateInitialGrid's road loop: the axis, the cursor
                  \* and the tiles carved so far; NoRoad outside the loop
  \* ---- action-point variant (Game2) ----
  gridSize,        \* useState gridSize: [width, height]
  grid2,           \* useState grid: [Pos2(gridSize) -> Tile]
  actionPoints,    \* useState actionPoints: [Players2 -> 0 .. 10]
  selectedCell,    \* useState selectedCell: a position, or NoCell
  validMoves,      \* useState validMoves (the set of its true entries)
  validAttacks,    \* useState validAttacks (the set of its true entries)
  gold,            \* useState gold
  showBuyMenu,     \* useState showBuyMenu
  buyMenuCell,     \* useState buyMenuCell: a position, or NoCell
  currentPlayer2,  \* useState currentPlayer
  lastApRecovery,  \* useState lastApRecovery: [Players2 -> ms]
  timeUntilNextAP, \* useState timeUntilNextAP: [Players2 -> s]
  clock,           \* the last reading of Date.now(), in ms since the mount
  incomeGold,      \* the gold the callback of the income interval closed over:
                   \* that of the render in which grid last changed
  lastAttack2,     \* observer: the attack the last command performed, if it did
  window           \* observer: a time window's start (ms, or -1 for none) and
                   \* the moves and attacks each player executed in it

turnVars == <<variant, grid, cityTerrain, selectedUnit, currentPlayer,
              movementRange, attackRange, gameStatus, resources, lastAttack,
              captureRun, turnActs, road>>

apVars == <<gridSize, grid2, actionPoints, selectedCell, validMoves,
            validAttacks, gold, showBuyMenu, buyMenuCell, currentPlayer2,
            lastApRecovery, timeUntilNextAP, clock, incomeGold,
            lastAttack2, window>>

vars == <<turnVars, apVars>>

----------------------------------------------------------------------------
(* Bounds of the model                                                     *)

\* Side of the square board (GRID_SIZE is 10 in Game.tsx, 20 in Game2.tsx).
GRID_SIZE == 3

\* The observer captureRun counts a unit's captures up to MaxRun.
MaxRun == 2

\* The observer turnActs counts a unit's actions of a turn up to MaxActs.
MaxActs == 2

\* Hundredths of a health point.
Cent == 100

----------------------------------------------------------------------------
(* Types and catalogs                                                      *)

Players == {"Red", "Blue"}

Variants == {"Game", "Game20"}

UnitTypeNames == {"Infantry", "Tank", "Artillery", "APC"}

TerrainTypeNames == {"Plain", "Mountain", "Forest", "City", "Road"}

UNIT_TYPES ==
  [Infantry  |-> [health |-> 100, attack |-> 55, defense |-> 10, moveRange |-> 3, attackRange |-> 1],
   Tank      |-> [health |-> 100, attack |-> 75, defense |-> 30, moveRange |-> 5, attackRange |-> 1],
   Artillery |-> [health |-> 100, attack |-> 90, defense |-> 5,  moveRange |-> 3, attackRange |-> 3],
   APC       |-> [health |-> 100, attack |-> 0,  defense |-> 15, moveRange |-> 6, attackRange |-> 0]]

\* movementCost is never read by the per-turn code and is left out.
TERRAIN_TYPES ==
  [Plain    |-> [defenseBonus |-> 0],
   Mountain |-> [defenseBonus |-> 30],
   Forest   |-> [defenseBonus |-> 10],
   City     |-> [defenseBonus |-> 20],
   Road     |-> [defenseBonus |-> 0]]

\* terrain.isCity: only the City entry of Game2.tsx's TERRAIN_TYPES carries it.
isCity(v, terrain) == v = "Game20" /\ terrain = "City"

Pos == (0 .. GRID_SIZE - 1) \X (0 .. GRID_SIZE - 1)

NoUnit ==
  [id |-> "null", type |-> "null", health |-> 0, position |-> <<0, 0>>,
   hasMoved |-> FALSE, hasAttacked |-> FALSE, player |-> "null"]

createUnit(id, type, position, player) ==
  [id |-> id, type |-> type, health |-> UNIT_TYPES[type].health * Cent,
   position |-> position, hasMoved |-> FALSE, hasAttacked |-> FALSE,
   player |-> player]

Abs(n) == IF n < 0 THEN -n ELSE n

Distance(p, q) == Abs(p[1] - q[1]) + Abs(p[2] - q[2])

Max(a, b) == IF a >= b THEN a ELSE b

Min(a, b) == IF a <= b THEN a ELSE b

\* A status line: the message, and the player, unit type or number it prints.
Status(msg, who, n) == [msg |-> msg, who |-> who, n |-> n]

\* JavaScript numbers as far as captureProgress needs them.
JsUndefined == [kind |-> "undefined", n |-> 0]

JsNaN == [kind |-> "NaN", n |-> 0]

JsNum(n) == [kind |-> "num", n |-> n]

JsAdd(a, k) == IF a.kind = "num" THEN JsNum(a.n + k) ELSE JsNaN

JsGE(a, k) == a.kind = "num" /\ a.n >= k

JsGT(a, k) == a.kind = "num" /\ a.n > k

\* What the observer turnActs holds for a unit that has not acted.
NoActs == [moves |-> 0, slots |-> 0]

\* What the observer lastAttack holds: the attacker as attackUnit received it,
\* the target tile, the defender before the attack and the damage dealt.
NoAttack == [op |-> "none", unit |-> NoUnit, target |-> <<0, 0>>,
             defender |-> NoUnit, damage |-> 0]

\* What road holds once generateInitialGrid has returned.
NoRoad == [axis |-> "none", at |-> 0, tiles |-> <<>>]

Attack(unit, target, defender, damage) ==
  [op |-> "attack", unit |-> unit, target |-> target, defender |-> defender,
   damage |-> damage]

----------------------------------------------------------------------------
(* Pure functions of the per-turn variant                                  *)

\* Model A damage without the cap at the defender's health.
calculateDamageNoCap(attacker, defender, defenderTerrain) ==
  LET terrainDefense == UNIT_TYPES[defender.type].defense
                          * TERRAIN_TYPES[defenderTerrain].defenseBonus
      damage == Max(0, UNIT_TYPES[attacker.type].attack * Cent
                         - (UNIT_TYPES[defender.type].defense * Cent + terrainDefense))
  IN  Max(10 * Cent, damage)

\* Model A damage without the terrain's share of the defense.
calculateDamageNoTerrain(attacker, defender, defenderTerrain) ==
  LET damage == Max(0, UNIT_TYPES[attacker.type].attack * Cent
                         - UNIT_TYPES[defender.type].defense * Cent)
  IN  Min(defender.health, Max(10 * Cent, damage))

\* Model A damage, in hundredths.
calculateDamage(attacker, defender, defenderTerrain) ==
  LET terrainDefense == UNIT_TYPES[defender.type].defense
                          * TERRAIN_TYPES[defenderTerrain].defenseBonus
      damage == Max(0, UNIT_TYPES[attacker.type].attack * Cent
                         - (UNIT_TYPES[defender.type].defense * Cent + terrainDefense))
  IN  Min(defender.health, Max(10 * Cent, damage))

isInRange(unitPosition, targetPosition, range) ==
  Distance(unitPosition, targetPosition) <= range

\* The dx, dy loops visit the in-bounds tiles of the square of side 2*range+1
\* around the unit; the distance test keeps the diamond.
calculateMovementRange(g, unit) ==
  LET range == UNIT_TYPES[unit.type].moveRange
  IN  {p \in Pos : /\ Abs(p[1] - unit.position[1]) <= range
                   /\ Abs(p[2] - unit.position[2]) <= range
                   /\ g[p].unit = NoUnit
                   /\ Distance(p, unit.position) <= range}

\* calculateAttackRange without the distance test: the whole square of the loops.
calculateAttackRangeSquare(g, unit) ==
  LET range == UNIT_TYPES[unit.type].attackRange
  IN  {p \in Pos : /\ Abs(p[1] - unit.position[1]) <= range
                   /\ Abs(p[2] - unit.position[2]) <= range
                   /\ g[p].unit # NoUnit
                   /\ g[p].unit.player # unit.player}

calculateAttackRange(g, unit) ==
  LET range == UNIT_TYPES[unit.type].attackRange
  IN  {p \in Pos : /\ Abs(p[1] - unit.position[1]) <= range
                   /\ Abs(p[2] - unit.position[2]) <= range
                   /\ g[p].unit # NoUnit
                   /\ g[p].unit.player # unit.player
                   /\ Distance(p, unit.position) <= range}

unitsLeft(g, player) ==
  Cardinality({p \in Pos : g[p].unit # NoUnit /\ g[p].unit.player = player})

\* A turn switch that hands the turn back to the player who ended it.
OtherPlayerStuck(p) == p

OtherPlayer(p) == IF p = "Red" THEN "Blue" ELSE "Red"

----------------------------------------------------------------------------
(* Handlers of the per-turn variant.  A handler reads the state s of the   *)
(* render it was created in and returns the state after the batched        *)
(* setState calls (the last call on a state wins).  Tiles are mutated in   *)
(* place through the shallow copy [...grid], so a write to updatedGrid is  *)
(* a write to grid.                                                        *)

Cur ==
  [grid |-> grid, city |-> cityTerrain, selectedUnit |-> selectedUnit,
   currentPlayer |-> currentPlayer, movementRange |-> movementRange,
   attackRange |-> attackRange, gameStatus |-> gameStatus,
   resources |-> resources, ev |-> NoAttack, run |-> captureRun,
   acts |-> turnActs]

\* handleUnitSelect whose rejections also drop the selection.
handleUnitSelectDeselects(s, x, y) ==
  LET unit == s.grid[<<x, y>>].unit
      cleared == [s EXCEPT !.selectedUnit = NoUnit, !.movementRange = {},
                           !.attackRange = {}]
  IN IF unit = NoUnit THEN cleared
     ELSE IF unit.player # s.currentPlayer
       THEN [cleared EXCEPT !.gameStatus = Status("It's turn", s.currentPlayer, 0)]
     ELSE IF unit.hasMoved /\ unit.hasAttacked
       THEN [cleared EXCEPT !.gameStatus = Status("This unit has already moved and attacked this turn", "", 0)]
     ELSE IF ~unit.hasMoved
       THEN [s EXCEPT !.selectedUnit = unit,
                      !.movementRange = calculateMovementRange(s.grid, unit),
                      !.gameStatus = Status("Select a tile to move to", "", 0)]
     ELSE [s EXCEPT !.selectedUnit = unit]

handleUnitSelect(s, x, y) ==
  LET unit == s.grid[<<x, y>>].unit IN
  IF unit = NoUnit
    THEN [s EXCEPT !.selectedUnit = NoUnit, !.movementRange = {},
                   !.attackRange = {}]
  ELSE IF unit.player # s.currentPlayer
    THEN [s EXCEPT !.gameStatus = Status("It's turn", s.currentPlayer, 0)]
  ELSE IF unit.hasMoved /\ unit.hasAttacked
    THEN [s EXCEPT !.gameStatus = Status("This unit has already moved and attacked this turn", "", 0)]
  ELSE LET s1 == [s EXCEPT !.selectedUnit = unit]
       IN IF ~unit.hasMoved
            THEN [s1 EXCEPT !.movementRange = calculateMovementRange(s.grid, unit),
                            !.gameStatus = Status("Select a tile to move to", "", 0)]
          ELSE IF ~unit.hasAttacked /\ UNIT_TYPES[unit.type].attackRange > 0
            THEN [s1 EXCEPT !.attackRange = calculateAttackRange(s.grid, unit),
                            !.gameStatus = Status("Select an enemy unit to attack", "", 0)]
          ELSE s1

\* Game20 only: the result is <<state, returned boolean>>.
\* captureCity that leaves the capturing unit's attack slot free.
captureCityFree(s, unit, x, y) ==
  IF ~isCity(variant, s.grid[<<x, y>>].terrain) \/ unit.type # "Infantry"
    THEN <<s, FALSE>>
  ELSE <<[s EXCEPT
            !.gameStatus = Status("Capturing: %", "NaN", 0),
            !.selectedUnit = unit,
            !.run = [s.run EXCEPT ![unit.id] = Min(@ + 1, MaxRun)],
            !.acts = [s.acts EXCEPT ![unit.id].slots = Min(@ + 1, MaxActs)]],
          TRUE>>

\* captureCity that keeps the snapshot it was handed as the selection.
captureCityStaleSelection(s, unit, x, y) ==
  IF ~isCity(variant, s.grid[<<x, y>>].terrain) \/ unit.type # "Infantry"
    THEN <<s, FALSE>>
  ELSE LET progress == JsAdd(s.city.captureProgress, 50)
           updatedUnit == [unit EXCEPT !.hasAttacked = TRUE]
       IN <<[s EXCEPT
               !.city = [s.city EXCEPT !.captureProgress = progress],
               !.gameStatus = Status("Capturing: %", progress.kind, progress.n),
               !.grid = [s.grid EXCEPT ![<<x, y>>].unit = updatedUnit],
               !.selectedUnit = unit,
               !.run = [s.run EXCEPT ![unit.id] = Min(@ + 1, MaxRun)],
               !.acts = [s.acts EXCEPT ![unit.id].slots = Min(@ + 1, MaxActs)]],
            TRUE>>

captureCity(s, unit, x, y) ==
  IF ~isCity(variant, s.grid[<<x, y>>].terrain) THEN <<s, FALSE>>
  ELSE
    LET city0 == s.city
        city1 == IF city0.owner \in Players /\ city0.owner # unit.player
                   THEN [city0 EXCEPT !.captureProgress = JsNum(0)]
                   ELSE city0
        captureAmount == IF unit.type = "Infantry" THEN 50 ELSE 0
    IN IF captureAmount > 0
         THEN LET progress == JsAdd(city1.captureProgress, captureAmount)
                  full == JsGE(progress, 100)
                  city2 == IF full
                             THEN [owner |-> unit.player, captureProgress |-> JsNum(0)]
                             ELSE [city1 EXCEPT !.captureProgress = progress]
                  updatedUnit == [unit EXCEPT !.hasAttacked = TRUE]
              IN <<[s EXCEPT
                     !.city = city2,
                     !.gameStatus =
                        IF full THEN Status("captured a city!", unit.player, 0)
                        ELSE Status("Capturing: %", progress.kind, progress.n),
                     !.grid = [s.grid EXCEPT ![<<x, y>>].unit = updatedUnit],
                     !.selectedUnit = updatedUnit,
                     !.run = [s.run EXCEPT ![unit.id] = Min(@ + 1, MaxRun)],
                     !.acts = [s.acts EXCEPT ![unit.id].slots = Min(@ + 1, MaxActs)]],
                   TRUE>>
         ELSE <<[s EXCEPT !.city = city1], FALSE>>

\* moveUnit that writes the unit to its new tile and forgets the old one.
moveUnitKeepsOld(s, unit, x, y) ==
  LET updatedUnit == [unit EXCEPT !.position = <<x, y>>, !.hasMoved = TRUE]
  IN [s EXCEPT !.grid = [s.grid EXCEPT ![<<x, y>>].unit = updatedUnit],
               !.movementRange = {},
               !.selectedUnit = NoUnit,
               !.gameStatus = Status("Select another unit", "", 0),
               !.run = [s.run EXCEPT ![unit.id] = 0],
               !.acts = [s.acts EXCEPT ![unit.id].moves = Min(@ + 1, MaxActs)]]

\* moveUnit that leaves the city it moves off as it was.
moveUnitNoReset(s, unit, x, y) ==
  LET old == unit.position
      g1 == [s.grid EXCEPT ![old].unit = NoUnit]
      updatedUnit == [unit EXCEPT !.position = <<x, y>>, !.hasMoved = TRUE]
      g2 == [g1 EXCEPT ![<<x, y>>].unit = updatedUnit]
      s1 == [s EXCEPT !.grid = g2, !.movementRange = {},
                      !.run = [s.run EXCEPT ![unit.id] = 0],
                      !.acts = [s.acts EXCEPT ![unit.id].moves = Min(@ + 1, MaxActs)]]
  IN IF UNIT_TYPES[updatedUnit.type].attackRange > 0
       THEN LET newAttackRange == calculateAttackRange(g2, updatedUnit)
            IN IF newAttackRange # {}
                 THEN [s1 EXCEPT !.attackRange = newAttackRange,
                                 !.selectedUnit = updatedUnit,
                                 !.gameStatus = Status("Select an enemy unit to attack", "", 0)]
                 ELSE [s1 EXCEPT !.attackRange = newAttackRange,
                                 !.selectedUnit = NoUnit,
                                 !.gameStatus = Status("No enemies in range to attack", "", 0)]
       ELSE [s1 EXCEPT !.selectedUnit = NoUnit,
                       !.gameStatus = Status("Select another unit", "", 0)]

moveUnit(s, unit, x, y) ==
  LET old == unit.position
      g1 == [s.grid EXCEPT ![old].unit = NoUnit]
      city1 == IF /\ isCity(variant, s.grid[old].terrain)
                  /\ s.city.owner # unit.player
                  /\ JsGT(s.city.captureProgress, 0)
                 THEN [s.city EXCEPT !.captureProgress = JsNum(0)]
                 ELSE s.city
      updatedUnit == [unit EXCEPT !.position = <<x, y>>, !.hasMoved = TRUE]
      g2 == [g1 EXCEPT ![<<x, y>>].unit = updatedUnit]
      s1 == [s EXCEPT !.grid = g2, !.city = city1, !.movementRange = {},
                      !.run = [s.run EXCEPT ![unit.id] = 0],
                      !.acts = [s.acts EXCEPT ![unit.id].moves = Min(@ + 1, MaxActs)]]
  IN IF UNIT_TYPES[updatedUnit.type].attackRange > 0
       THEN LET newAttackRange == calculateAttackRange(g2, updatedUnit)
            IN IF newAttackRange # {}
                 THEN [s1 EXCEPT !.attackRange = newAttackRange,
                                 !.selectedUnit = updatedUnit,
                                 !.gameStatus = Status("Select an enemy unit to attack", "", 0)]
                 ELSE [s1 EXCEPT !.attackRange = newAttackRange,
                                 !.selectedUnit = NoUnit,
                                 !.gameStatus = Status("No enemies in range to attack", "", 0)]
       ELSE [s1 EXCEPT !.selectedUnit = NoUnit,
                       !.gameStatus = Status("Select another unit", "", 0)]

\* attackStatus that names the faction left without units as the winner.
attackStatusSwapped(g, defender, damage, destroyed) ==
  IF unitsLeft(g, "Red") = 0 THEN Status("wins!", "Red", 0)
  ELSE IF unitsLeft(g, "Blue") = 0 THEN Status("wins!", "Blue", 0)
  ELSE IF destroyed THEN Status("destroyed!", defender.type, 0)
  ELSE Status("took damage!", defender.type, damage)

\* The status after an attack: the win announcement overrides the damage line.
attackStatus(g, defender, damage, destroyed) ==
  IF unitsLeft(g, "Red") = 0 THEN Status("wins!", "Blue", 0)
  ELSE IF unitsLeft(g, "Blue") = 0 THEN Status("wins!", "Red", 0)
  ELSE IF destroyed THEN Status("destroyed!", defender.type, 0)
  ELSE Status("took damage!", defender.type, damage)

\* attackUnit that forgets to mark the attacker as having attacked.
attackUnitUnflagged(s, attacker, x, y) ==
  LET defender == s.grid[<<x, y>>].unit IN
  IF defender = NoUnit
    \* defender.health of null throws before anything is written
    THEN s
  ELSE
    LET terrain == s.grid[<<x, y>>].terrain
        damage == calculateDamage(attacker, defender, terrain)
        updatedDefender == [defender EXCEPT !.health = defender.health - damage]
        updatedAttacker == attacker
        g1 == [s.grid EXCEPT ![attacker.position].unit = updatedAttacker]
        destroyed == updatedDefender.health <= 0
        g2 == IF destroyed
                THEN [g1 EXCEPT ![<<x, y>>].unit = NoUnit]
                ELSE [g1 EXCEPT ![<<x, y>>].unit = updatedDefender]
    IN [s EXCEPT !.grid = g2, !.selectedUnit = NoUnit, !.attackRange = {},
                 !.gameStatus = attackStatus(g2, defender, damage, destroyed),
                 !.ev = Attack(attacker, <<x, y>>, defender, damage),
                 !.acts = [s.acts EXCEPT ![attacker.id].slots = Min(@ + 1, MaxActs)]]

\* attackUnit in which the defender strikes back for the same damage.
attackUnitRetaliated(s, attacker, x, y) ==
  LET defender == s.grid[<<x, y>>].unit IN
  IF defender = NoUnit
    THEN s
  ELSE
    LET terrain == s.grid[<<x, y>>].terrain
        damage == calculateDamage(attacker, defender, terrain)
        updatedDefender == [defender EXCEPT !.health = defender.health - damage]
        updatedAttacker == [attacker EXCEPT !.hasAttacked = TRUE,
                                            !.health = Max(1, @ - damage)]
        g1 == [s.grid EXCEPT ![attacker.position].unit = updatedAttacker]
        destroyed == updatedDefender.health <= 0
        g2 == IF destroyed
                THEN [g1 EXCEPT ![<<x, y>>].unit = NoUnit]
                ELSE [g1 EXCEPT ![<<x, y>>].unit = updatedDefender]
    IN [s EXCEPT !.grid = g2, !.selectedUnit = NoUnit, !.attackRange = {},
                 !.gameStatus = attackStatus(g2, defender, damage, destroyed),
                 !.ev = Attack(attacker, <<x, y>>, defender, damage),
                 !.acts = [s.acts EXCEPT ![attacker.id].slots = Min(@ + 1, MaxActs)]]

attackUnit(s, attacker, x, y) ==
  LET defender == s.grid[<<x, y>>].unit IN
  IF defender = NoUnit
    \* defender.health of null throws before anything is written
    THEN s
  ELSE
    LET terrain == s.grid[<<x, y>>].terrain
        damage == calculateDamage(attacker, defender, terrain)
        updatedDefender == [defender EXCEPT !.health = defender.health - damage]
        updatedAttacker == [attacker EXCEPT !.hasAttacked = TRUE]
        g1 == [s.grid EXCEPT ![attacker.position].unit = updatedAttacker]
        destroyed == updatedDefender.health <= 0
        g2 == IF destroyed
                THEN [g1 EXCEPT ![<<x, y>>].unit = NoUnit]
                ELSE [g1 EXCEPT ![<<x, y>>].unit = updatedDefender]
    IN [s EXCEPT !.grid = g2, !.selectedUnit = NoUnit, !.attackRange = {},
                 !.gameStatus = attackStatus(g2, defender, damage, destroyed),
                 !.ev = Attack(attacker, <<x, y>>, defender, damage),
                 !.acts = [s.acts EXCEPT ![attacker.id].slots = Min(@ + 1, MaxActs)]]

\* The capture block that opens Game20's handleTileClick: <<state, done>>.
captureAttempt(s, x, y) ==
  IF /\ variant = "Game20"
     /\ s.selectedUnit # NoUnit
     /\ ~s.selectedUnit.hasAttacked
     /\ s.selectedUnit.position = <<x, y>>
     /\ isCity(variant, s.grid[<<x, y>>].terrain)
     /\ (s.city.owner = "undefined" \/ s.city.owner # s.selectedUnit.player)
    THEN captureCity(s, s.selectedUnit, x, y)
    ELSE <<s, FALSE>>

ownUnitAt(s, x, y) ==
  /\ s.grid[<<x, y>>].unit # NoUnit
  /\ s.grid[<<x, y>>].unit.player = s.currentPlayer

handleTileClick(s0, x, y) ==
  LET try == captureAttempt(s0, x, y)
      s == try[1]
  IN IF try[2] THEN s
     ELSE IF s.selectedUnit = NoUnit
       THEN IF ownUnitAt(s, x, y) THEN handleUnitSelect(s, x, y)
            ELSE s
     ELSE IF ~s.selectedUnit.hasMoved /\ <<x, y>> \in s.movementRange
       THEN moveUnit(s, s.selectedUnit, x, y)
     ELSE IF ~s.selectedUnit.hasAttacked /\ <<x, y>> \in s.attackRange
       THEN attackUnit(s, s.selectedUnit, x, y)
     ELSE IF ownUnitAt(s, x, y)
       THEN handleUnitSelect(s, x, y)
     ELSE [s EXCEPT !.selectedUnit = NoUnit, !.movementRange = {},
                    !.attackRange = {}]

\* Cities owned by a player: every City tile refers to the one shared object.
cityIncome(s, player) ==
  100 * Cardinality({p \in Pos : /\ isCity(variant, s.grid[p].terrain)
                                 /\ s.city.owner = player})

\* endTurn that leaves the units' flags as they are.
endTurnNoReset(s) ==
  LET resetUnit(u) == IF u # NoUnit /\ u.player = s.currentPlayer
                        THEN [u EXCEPT !.hasMoved = FALSE, !.hasAttacked = FALSE]
                        ELSE u
      updatedGrid == s.grid
      nextPlayer == OtherPlayer(s.currentPlayer)
      income == cityIncome(s, nextPlayer)
  IN [s EXCEPT !.grid = updatedGrid,
               !.resources = IF income > 0
                               THEN [@ EXCEPT ![nextPlayer] = @ + income]
                               ELSE @,
               !.currentPlayer = nextPlayer,
               !.selectedUnit = NoUnit, !.movementRange = {}, !.attackRange = {},
               !.gameStatus = Status("'s turn", nextPlayer, 0),
               !.acts = [id \in DOMAIN s.acts |-> NoActs]]

\* endTurn that pays the next player 100 whatever cities it owns.
endTurnFlatIncome(s) ==
  LET resetUnit(u) == IF u # NoUnit /\ u.player = s.currentPlayer
                        THEN [u EXCEPT !.hasMoved = FALSE, !.hasAttacked = FALSE]
                        ELSE u
      updatedGrid == [p \in Pos |-> [s.grid[p] EXCEPT !.unit = resetUnit(@)]]
      nextPlayer == OtherPlayer(s.currentPlayer)
  IN [s EXCEPT !.grid = updatedGrid,
               !.resources = [@ EXCEPT ![nextPlayer] = @ + 100],
               !.currentPlayer = nextPlayer,
               !.selectedUnit = NoUnit, !.movementRange = {}, !.attackRange = {},
               !.gameStatus = Status("'s turn", nextPlayer, 0),
               !.acts = [id \in DOMAIN s.acts |-> NoActs]]

endTurn(s) ==
  LET resetUnit(u) == IF u # NoUnit /\ u.player = s.currentPlayer
                        THEN [u EXCEPT !.hasMoved = FALSE, !.hasAttacked = FALSE]
                        ELSE u
      updatedGrid == [p \in Pos |-> [s.grid[p] EXCEPT !.unit = resetUnit(@)]]
      nextPlayer == OtherPlayer(s.currentPlayer)
      income == cityIncome(s, nextPlayer)
  IN [s EXCEPT !.grid = updatedGrid,
               !.resources = IF income > 0
                               THEN [@ EXCEPT ![nextPlayer] = @ + income]
                               ELSE @,
               !.currentPlayer = nextPlayer,
               !.selectedUnit = NoUnit, !.movementRange = {}, !.attackRange = {},
               !.gameStatus = Status("'s turn", nextPlayer, 0),
               !.acts = [id \in DOMAIN s.acts |-> NoActs]]

\* Game20's Next Unit button.
cycleToNextUnit(s) ==
  LET units == {p \in Pos : ownUnitAt(s, p[1], p[2])}
      RowMajor(p) == p[2] * GRID_SIZE + p[1]
      Index(p) == Cardinality({q \in units : RowMajor(q) < RowMajor(p)})
      nextUnitIndex ==
        IF s.selectedUnit # NoUnit /\ s.selectedUnit.position \in units
          THEN (Index(s.selectedUnit.position) + 1) % Cardinality(units)
          ELSE 0
  IN IF units = {}
       THEN s
       ELSE LET p == CHOOSE q \in units : Index(q) = nextUnitIndex
            IN handleUnitSelect(s, p[1], p[2])

----------------------------------------------------------------------------
(* The action-point variant (Game2): types and catalogs                    *)

Players2 == {1, 2}

\* owner: null, and the player of no unit.
NoPlayer == 0

UnitTypeNames2 == {"infantry", "tank", "artillery"}

TerrainTypeNames2 == {"plain", "forest", "mountain", "city", "base"}

UNIT_STATS ==
  [infantry  |-> [cost |-> 1000, movement |-> 3, minRange |-> 1, maxRange |-> 1,
                  attack |-> 55, defense |-> 50],
   tank      |-> [cost |-> 7000, movement |-> 6, minRange |-> 1, maxRange |-> 1,
                  attack |-> 85, defense |-> 70],
   artillery |-> [cost |-> 6000, movement |-> 5, minRange |-> 2, maxRange |-> 3,
                  attack |-> 90, defense |-> 40]]

TERRAIN_DEFENSE ==
  [plain |-> 0, forest |-> 20, mountain |-> 30, city |-> 30, base |-> 30]

MAX_ACTION_POINTS == 10

AP_RECOVERY_INTERVAL == 60000

\* The period of the income interval, in ms.
INCOME_INTERVAL == 10000

\* What one owned city or base pays per income tick.
IncomePerTile == 100

\* The hp a unit is created with.
FullHp == 100

Pos2(size) == (0 .. size.width - 1) \X (0 .. size.height - 1)

NoCell == <<-1, -1>>

NoUnit2 == [type |-> "null", player |-> NoPlayer, hp |-> 0]

Unit2(type, player, hp) == [type |-> type, player |-> player, hp |-> hp]

Tile2(terrain, owner, unit) == [terrain |-> terrain, owner |-> owner, unit |-> unit]

\* What the observer lastAttack2 holds: the two cells, the two units before
\* the attack and the damage dealt.
NoAttack2 == [op |-> "none", from |-> NoCell, to |-> NoCell,
              attacker |-> NoUnit2, defender |-> NoUnit2, damage |-> 0]

\* What the observer window holds while no window is followed.
NoWindow == [start |-> -1, spent |-> [p \in Players2 |-> 0]]

Attack2(from, to, attacker, defender, damage) ==
  [op |-> "attack", from |-> from, to |-> to, attacker |-> attacker,
   defender |-> defender, damage |-> damage]

----------------------------------------------------------------------------
(* Pure functions of the action-point variant                              *)

\* const directions = [[-1, 0], [1, 0], [0, -1], [0, 1]]
directions == <<<<-1, 0>>, <<1, 0>>, <<0, -1>>, <<0, 1>>>>

\* The for loop without the test of the visited array.
RECURSIVE expandNodeRevisits(_, _, _, _, _, _)
expandNodeRevisits(g, size, unit, current, i, qv) ==
  IF i > Len(directions) THEN qv
  ELSE
    LET n == <<current.pos[1] + directions[i][1], current.pos[2] + directions[i][2]>>
        free == /\ n \in Pos2(size)
                /\ (g[n].unit = NoUnit2 \/ g[n].unit.player = unit.player)
        moveCost == IF g[n].terrain = "mountain" THEN 2 ELSE 1
        newMovesLeft == current.movesLeft - moveCost
    IN expandNodeRevisits(g, size, unit, current, i + 1,
                  IF free /\ newMovesLeft >= 0
                    THEN [queue |-> Append(qv.queue, [pos |-> n, movesLeft |-> newMovesLeft]),
                          visited |-> qv.visited \cup {n}]
                    ELSE qv)

\* The for loop over directions for the dequeued node current, from the i-th
\* direction on: qv holds the queue and the visited set.
RECURSIVE expandNode(_, _, _, _, _, _)
expandNode(g, size, unit, current, i, qv) ==
  IF i > Len(directions) THEN qv
  ELSE
    LET n == <<current.pos[1] + directions[i][1], current.pos[2] + directions[i][2]>>
        free == /\ n \in Pos2(size)
                /\ n \notin qv.visited
                /\ (g[n].unit = NoUnit2 \/ g[n].unit.player = unit.player)
        moveCost == IF g[n].terrain = "mountain" THEN 2 ELSE 1
        newMovesLeft == current.movesLeft - moveCost
    IN expandNode(g, size, unit, current, i + 1,
                  IF free /\ newMovesLeft >= 0
                    THEN [queue |-> Append(qv.queue, [pos |-> n, movesLeft |-> newMovesLeft]),
                          visited |-> qv.visited \cup {n}]
                    ELSE qv)

\* The while loop: dequeue, mark, expand.
RECURSIVE searchMoves(_, _, _, _, _)
searchMoves(g, size, unit, qv, moves) ==
  IF qv.queue = <<>> THEN moves
  ELSE LET current == Head(qv.queue)
       IN searchMoves(g, size, unit,
                      expandNode(g, size, unit, current, 1,
                                 [qv EXCEPT !.queue = Tail(qv.queue)]),
                      moves \cup {current.pos})

\* The while loop again, with the tiles recorded in the order they are
\* dequeued and expanded, and cut off after fuel iterations: finished tells
\* whether the queue ran empty.
RECURSIVE searchOrder(_, _, _, _, _, _)
searchOrder(g, size, unit, qv, order, fuel) ==
  IF qv.queue = <<>> THEN [finished |-> TRUE, order |-> order]
  ELSE IF fuel = 0 THEN [finished |-> FALSE, order |-> order]
  ELSE LET current == Head(qv.queue)
       IN searchOrder(g, size, unit,
                      expandNode(g, size, unit, current, 1,
                                 [qv EXCEPT !.queue = Tail(qv.queue)]),
                      Append(order, current.pos),
                      fuel - 1)

\* calculateValidMoves for a unit standing on <<x, y>> with a movement budget.
validMovesWithin(g, size, x, y, movement) ==
  searchMoves(g, size, g[<<x, y>>].unit,
              [queue |-> <<[pos |-> <<x, y>>, movesLeft |-> movement]>>,
               visited |-> {<<x, y>>}],
              {})

\* calculateValidMoves as the diamond of the movement value, whatever stands
\* or lies in it.
calculateValidMovesDiamond(g, size, x, y) ==
  LET unit == g[<<x, y>>].unit
  IN IF unit = NoUnit2 THEN {}
     ELSE {t \in Pos2(size) :
             Abs(t[1] - x) + Abs(t[2] - y) <= UNIT_STATS[unit.type].movement}

calculateValidMoves(g, size, x, y) ==
  LET unit == g[<<x, y>>].unit
  IN IF unit = NoUnit2 THEN {}
     ELSE validMovesWithin(g, size, x, y, UNIT_STATS[unit.type].movement)

\* calculateValidAttacks without the lower end of the range.
calculateValidAttacksNoMin(g, size, x, y) ==
  LET unit == g[<<x, y>>].unit
  IN IF unit = NoUnit2 THEN {}
     ELSE LET stats == UNIT_STATS[unit.type]
          IN {t \in Pos2(size) :
                LET distance == Abs(t[1] - x) + Abs(t[2] - y)
                    targetUnit == g[t].unit
                IN /\ distance <= stats.maxRange
                   /\ targetUnit # NoUnit2
                   /\ targetUnit.player # unit.player}

calculateValidAttacks(g, size, x, y) ==
  LET unit == g[<<x, y>>].unit
  IN IF unit = NoUnit2 THEN {}
     ELSE LET stats == UNIT_STATS[unit.type]
          IN {t \in Pos2(size) :
                LET distance == Abs(t[1] - x) + Abs(t[2] - y)
                    targetUnit == g[t].unit
                IN /\ distance >= stats.minRange
                   /\ distance <= stats.maxRange
                   /\ targetUnit # NoUnit2
                   /\ targetUnit.player # unit.player}

\* The argument of Math.floor in performAttack, times 20000:
\*   attack * (hp / 100) - defense * (hp / 100) * (1 + terrainDefense / 100) / 2
damageTimes20000(attacker, defender, terrain) ==
  UNIT_STATS[attacker.type].attack * attacker.hp * 200
    - UNIT_STATS[defender.type].defense * defender.hp * (100 + TERRAIN_DEFENSE[terrain])

\* Math.floor of that argument as the doubles can give it.  Off an integer
\* the argument is at least 1/20000 away from one and the rounding of the
\* four operations cannot cross it; on an integer k the computed double may
\* fall just below k, and the floor is then k - 1.
floorOutcomes(scaled) ==
  IF scaled % 20000 = 0
    THEN {scaled \div 20000, scaled \div 20000 - 1}
    ELSE {scaled \div 20000}

\* Math.ceil(ms / 1000)
ceilSeconds(ms) == -((-ms) \div 1000)

----------------------------------------------------------------------------
(* Handlers of the action-point variant.  As above, a handler reads the    *)
(* state s of its render and returns the state after the batched setState  *)
(* calls.  moveUnit and performAttack work on a deep copy of the grid.     *)

Cur2 ==
  [grid |-> grid2, actionPoints |-> actionPoints, selectedCell |-> selectedCell,
   validMoves |-> validMoves, validAttacks |-> validAttacks, gold |-> gold,
   showBuyMenu |-> showBuyMenu, buyMenuCell |-> buyMenuCell,
   currentPlayer |-> currentPlayer2, lastApRecovery |-> lastApRecovery,
   timeUntilNextAP |-> timeUntilNextAP, ev |-> NoAttack2]

\* moveUnit of the action-point page that may land on a unit.
moveUnit2Tramples(s, from, to) ==
  LET unit == s.grid[from].unit
      victim == CHOOSE p \in DOMAIN s.grid : p # from /\ s.grid[p].unit # NoUnit2
  IN [s EXCEPT !.grid = [s.grid EXCEPT ![victim].unit = unit,
                                       ![from].unit = NoUnit2],
               !.ev = [NoAttack2 EXCEPT !.op = "move"]]

moveUnit2(s, from, to) ==
  LET unit == s.grid[from].unit
      g1 == [s.grid EXCEPT ![to].unit = unit]
      g2 == [g1 EXCEPT ![from].unit = NoUnit2]
      g3 == IF g2[to].terrain = "city" /\ g2[to].owner # unit.player
              THEN [g2 EXCEPT ![to].owner = unit.player]
              ELSE g2
  IN [s EXCEPT !.grid = g3,
               !.ev = [NoAttack2 EXCEPT !.op = "move"]]

\* performAttack without the minimum of 1 on the damage.
performAttackNoMinimum(s, from, to, floored) ==
  LET attacker == s.grid[from].unit
      defender == s.grid[to].unit
      damage == floored
      hp == Max(0, defender.hp - damage)
      g1 == IF hp <= 0
              THEN [s.grid EXCEPT ![to].unit = NoUnit2]
              ELSE [s.grid EXCEPT ![to].unit.hp = hp]
  IN [s EXCEPT !.grid = g1,
               !.ev = Attack2(from, to, attacker, defender, damage)]

\* floored is what Math.floor returned: one of floorOutcomes.
performAttack(s, from, to, floored) ==
  LET attacker == s.grid[from].unit
      defender == s.grid[to].unit
      damage == Max(1, floored)
      hp == Max(0, defender.hp - damage)
      g1 == IF hp <= 0
              THEN [s.grid EXCEPT ![to].unit = NoUnit2]
              ELSE [s.grid EXCEPT ![to].unit.hp = hp]
  IN [s EXCEPT !.grid = g1,
               !.ev = Attack2(from, to, attacker, defender, damage)]

\* The three setters that drop the selection.
clearSelection(s) ==
  [s EXCEPT !.selectedCell = NoCell, !.validMoves = {}, !.validAttacks = {}]

\* The closing lines of handleCellClick: a click on a unit selects it.
selectClicked(s, g, size, x, y) ==
  IF g[<<x, y>>].unit # NoUnit2
    THEN [s EXCEPT !.selectedCell = <<x, y>>,
                   !.validMoves = calculateValidMoves(g, size, x, y),
                   !.validAttacks = calculateValidAttacks(g, size, x, y)]
    ELSE s

\* spendPoint that charges two points.
spendPointTwice(s) ==
  [s EXCEPT !.actionPoints[s.currentPlayer] = @ - 2]

spendPoint(s) ==
  [s EXCEPT !.actionPoints[s.currentPlayer] = @ - 1]

\* What the observer holds after a move or attack click that found no point
\* to spend: the handler writes nothing but the dropped selection.
refused(s) ==
  [s EXCEPT !.ev = [NoAttack2 EXCEPT !.op = "refused"]]

\* handleCellClick that lets the selected unit act whoever owns it.
handleCellClickAnyUnit(s, size, x, y, floored) ==
  LET clickedTile == s.grid[<<x, y>>]
  IN IF s.showBuyMenu
       THEN [s EXCEPT !.showBuyMenu = FALSE, !.buyMenuCell = NoCell]
     ELSE IF /\ clickedTile.terrain = "base"
             /\ clickedTile.owner = s.currentPlayer
             /\ clickedTile.unit = NoUnit2
       THEN [s EXCEPT !.showBuyMenu = TRUE, !.buyMenuCell = <<x, y>>]
     ELSE IF s.selectedCell = NoCell
       THEN selectClicked(s, s.grid, size, x, y)
     ELSE IF <<x, y>> \in s.validMoves /\ clickedTile.unit = NoUnit2
       THEN clearSelection(
              IF s.actionPoints[s.currentPlayer] >= 1
                THEN spendPoint(moveUnit2(s, s.selectedCell, <<x, y>>))
                ELSE refused(s))
     ELSE IF <<x, y>> \in s.validAttacks
       THEN clearSelection(
              IF s.actionPoints[s.currentPlayer] >= 1
                THEN spendPoint(performAttack(s, s.selectedCell, <<x, y>>, floored))
                ELSE refused(s))
     ELSE selectClicked(clearSelection(s), s.grid, size, x, y)

handleCellClick(s, size, x, y, floored) ==
  LET clickedTile == s.grid[<<x, y>>]
      selectedUnit2 == s.grid[s.selectedCell].unit
  IN IF s.showBuyMenu
       THEN [s EXCEPT !.showBuyMenu = FALSE, !.buyMenuCell = NoCell]
     ELSE IF /\ clickedTile.terrain = "base"
             /\ clickedTile.owner = s.currentPlayer
             /\ clickedTile.unit = NoUnit2
       THEN [s EXCEPT !.showBuyMenu = TRUE, !.buyMenuCell = <<x, y>>]
     ELSE IF s.selectedCell = NoCell
       THEN selectClicked(s, s.grid, size, x, y)
     ELSE IF /\ <<x, y>> \in s.validMoves
             /\ clickedTile.unit = NoUnit2
             /\ selectedUnit2.player = s.currentPlayer
       THEN clearSelection(
              IF s.actionPoints[s.currentPlayer] >= 1
                THEN spendPoint(moveUnit2(s, s.selectedCell, <<x, y>>))
                ELSE refused(s))
     ELSE IF /\ <<x, y>> \in s.validAttacks
             /\ selectedUnit2.player = s.currentPlayer
       THEN clearSelection(
              IF s.actionPoints[s.currentPlayer] >= 1
                THEN spendPoint(performAttack(s, s.selectedCell, <<x, y>>, floored))
                ELSE refused(s))
     \* the batch: the selection is dropped, then set again by a click on a unit
     ELSE selectClicked(clearSelection(s), s.grid, size, x, y)

\* buyUnit that does not look at the gold.
buyUnitOnCredit(s, unitType) ==
  IF s.buyMenuCell = NoCell THEN s
  ELSE [s EXCEPT !.grid[s.buyMenuCell].unit = Unit2(unitType, s.currentPlayer, FullHp),
                 !.gold[s.currentPlayer] = @ - UNIT_STATS[unitType].cost,
                 !.showBuyMenu = FALSE,
                 !.buyMenuCell = NoCell]

buyUnit(s, unitType) ==
  IF s.buyMenuCell = NoCell THEN s
  ELSE IF s.gold[s.currentPlayer] < UNIT_STATS[unitType].cost THEN s
  ELSE [s EXCEPT !.grid[s.buyMenuCell].unit = Unit2(unitType, s.currentPlayer, FullHp),
                 !.gold[s.currentPlayer] = @ - UNIT_STATS[unitType].cost,
                 !.showBuyMenu = FALSE,
                 !.buyMenuCell = NoCell]

\* The Cancel button of the buy menu.
cancelBuy(s) ==
  [s EXCEPT !.showBuyMenu = FALSE, !.buyMenuCell = NoCell]

switchPlayer(s) ==
  clearSelection([s EXCEPT !.currentPlayer = IF s.currentPlayer = 1 THEN 2 ELSE 1])

\* The city and base tiles a player owns.
ownedTiles(g, player) ==
  {p \in DOMAIN g : g[p].terrain \in {"city", "base"} /\ g[p].owner = player}

\* The callback of the income interval; captured is the gold it closed over.
incomeTick(s, captured) ==
  [s EXCEPT !.gold = [player \in Players2 |->
                        captured[player]
                          + IncomePerTile * Cardinality(ownedTiles(s.grid, player))]]

\* The recovery callback with a strict comparison against the interval.
recoveryTickStrict(s, now) ==
  LET recovers(player) ==
        /\ now - s.lastApRecovery[player] > AP_RECOVERY_INTERVAL
        /\ s.actionPoints[player] < MAX_ACTION_POINTS
      newActionPoints ==
        [player \in Players2 |->
           IF recovers(player)
             THEN Min(MAX_ACTION_POINTS, s.actionPoints[player] + 1)
             ELSE s.actionPoints[player]]
      newLastApRecovery ==
        [player \in Players2 |->
           IF recovers(player) THEN now ELSE s.lastApRecovery[player]]
      newTimeUntilNextAP ==
        [player \in Players2 |->
           ceilSeconds(AP_RECOVERY_INTERVAL - (now - newLastApRecovery[player]))]
      updated == \E player \in Players2 : recovers(player)
  IN IF updated
       THEN [s EXCEPT !.timeUntilNextAP = newTimeUntilNextAP,
                      !.actionPoints = newActionPoints,
                      !.lastApRecovery = newLastApRecovery]
       ELSE [s EXCEPT !.timeUntilNextAP = newTimeUntilNextAP]

\* The callback of the recovery interval, run when Date.now() reads now.
recoveryTick(s, now) ==
  LET recovers(player) ==
        /\ now - s.lastApRecovery[player] >= AP_RECOVERY_INTERVAL
        /\ s.actionPoints[player] < MAX_ACTION_POINTS
      newActionPoints ==
        [player \in Players2 |->
           IF recovers(player)
             THEN Min(MAX_ACTION_POINTS, s.actionPoints[player] + 1)
             ELSE s.actionPoints[player]]
      newLastApRecovery ==
        [player \in Players2 |->
           IF recovers(player) THEN now ELSE s.lastApRecovery[player]]
      newTimeUntilNextAP ==
        [player \in Players2 |->
           ceilSeconds(AP_RECOVERY_INTERVAL - (now - newLastApRecovery[player]))]
      updated == \E player \in Players2 : recovers(player)
  IN IF updated
       THEN [s EXCEPT !.timeUntilNextAP = newTimeUntilNextAP,
                      !.actionPoints = newActionPoints,
                      !.lastApRecovery = newLastApRecovery]
       ELSE [s EXCEPT !.timeUntilNextAP = newTimeUntilNextAP]

Apply2(s) ==
  /\ grid2' = s.grid
  /\ actionPoints' = s.actionPoints
  /\ selectedCell' = s.selectedCell
  /\ validMoves' = s.validMoves
  /\ validAttacks' = s.validAttacks
  /\ gold' = s.gold
  /\ showBuyMenu' = s.showBuyMenu
  /\ buyMenuCell' = s.buyMenuCell
  /\ currentPlayer2' = s.currentPlayer
  /\ lastApRecovery' = s.lastApRecovery
  /\ timeUntilNextAP' = s.timeUntilNextAP
  /\ lastAttack2' = s.ev
  /\ window' = IF /\ window.start >= 0
                  /\ clock >= window.start
                  /\ s.ev.op \in {"move", "attack"}
                 THEN [window EXCEPT !.spent[currentPlayer2] = @ + 1]
                 ELSE window
  \* the income effect depends on [grid]: it runs again, and closes over the
  \* gold of the new render, only when the handler has set a new grid
  /\ incomeGold' = IF s.grid # grid2 THEN s.gold ELSE incomeGold
  /\ gridSize' = gridSize
  /\ UNCHANGED turnVars

\* The page of the other variant is not mounted (App.tsx routes to one page).
Game2Unmounted ==
  /\ gridSize = [width |-> 0, height |-> 0]
  /\ grid2 = <<>>
  /\ actionPoints = [p \in Players2 |-> MAX_ACTION_POINTS]
  /\ selectedCell = NoCell
  /\ validMoves = {}
  /\ validAttacks = {}
  /\ gold = [p \in Players2 |-> 10000]
  /\ showBuyMenu = FALSE
  /\ buyMenuCell = NoCell
  /\ currentPlayer2 = 1
  /\ lastApRecovery = [p \in Players2 |-> 0]
  /\ timeUntilNextAP = [p \in Players2 |-> 60]
  /\ clock = 0
  /\ incomeGold = gold
  /\ lastAttack2 = NoAttack2
  /\ window = NoWindow

GameUnmounted ==
  /\ variant = "Game2"
  /\ grid = <<>>
  /\ cityTerrain = [owner |-> "undefined", captureProgress |-> JsUndefined]
  /\ selectedUnit = NoUnit
  /\ currentPlayer = "Red"
  /\ movementRange = {}
  /\ attackRange = {}
  /\ gameStatus = Status("Select a unit to move", "", 0)
  /\ resources = [p \in Players |-> 1000]
  /\ lastAttack = NoAttack
  /\ captureRun = <<>>
  /\ turnActs = <<>>
  /\ road = NoRoad

----------------------------------------------------------------------------
(* The per-turn match: initializeGame and the commands of the page         *)

\* initializeGame's units (the placement of Game.tsx, which follows
\* GRID_SIZE; Game2.tsx's 20x20 placement needs a side of 6 or more).
InitialUnits ==
  {createUnit("RI", "Infantry",  <<1, 0>>, "Red"),
   createUnit("RT", "Tank",      <<0, 1>>, "Red"),
   createUnit("RA", "Artillery", <<1, 2>>, "Red"),
   createUnit("BI", "Infantry",  <<GRID_SIZE - 2, GRID_SIZE - 1>>, "Blue"),
   createUnit("BT", "Tank",      <<GRID_SIZE - 1, GRID_SIZE - 2>>, "Blue"),
   createUnit("BA", "Artillery", <<GRID_SIZE - 2, GRID_SIZE - 3>>, "Blue")}

UnitIds == {u.id : u \in InitialUnits}

\* The units a bounded match starts with: the others count as destroyed.
Rosters == {{"RI", "BT"}}

\* The road carving of generateInitialGrid, when every road runs straight down
\* column 0 or along row 1 (a tile one generator carves, the other can draw).
IsRoad(p) == p[1] = 0 \/ p[2] = 1

\* The outcome of generateInitialGrid the model starts from: the roads, two
\* City tiles, Plain elsewhere.
TwoCityMap ==
  [p \in Pos |-> IF IsRoad(p) THEN "Road"
                 ELSE IF p \in {<<1, 0>>, <<GRID_SIZE - 1, GRID_SIZE - 1>>} THEN "City"
                 ELSE "Plain"]

Maps == {TwoCityMap}

initializeGame(map, roster) ==
  [p \in Pos |->
     [terrain |-> map[p],
      unit |-> IF \E u \in InitialUnits : u.id \in roster /\ u.position = p
                 THEN CHOOSE u \in InitialUnits : u.id \in roster /\ u.position = p
                 ELSE NoUnit]]

InitTurn ==
  /\ variant \in Variants
  /\ \E map \in Maps, roster \in Rosters : grid = initializeGame(map, roster)
  /\ cityTerrain = [owner |-> "undefined", captureProgress |-> JsUndefined]
  /\ selectedUnit = NoUnit
  /\ currentPlayer = "Red"
  /\ movementRange = {}
  /\ attackRange = {}
  /\ gameStatus = Status("Select a unit to move", "", 0)
  /\ resources = [p \in Players |-> 1000]
  /\ lastAttack = NoAttack
  /\ captureRun = [id \in UnitIds |-> 0]
  /\ turnActs = [id \in UnitIds |-> NoActs]
  /\ road = NoRoad

Apply(s) ==
  /\ grid' = s.grid
  /\ cityTerrain' = s.city
  /\ selectedUnit' = s.selectedUnit
  /\ currentPlayer' = s.currentPlayer
  /\ movementRange' = s.movementRange
  /\ attackRange' = s.attackRange
  /\ gameStatus' = s.gameStatus
  /\ resources' = s.resources
  /\ lastAttack' = s.ev
  /\ captureRun' = s.run
  /\ turnActs' = s.acts
  /\ road' = road
  /\ variant' = variant
  /\ UNCHANGED apVars

HandleTileClick(x, y) == Apply(handleTileClick(Cur, x, y))

EndTurn == Apply(endTurn(Cur))

CycleToNextUnit == variant = "Game20" /\ Apply(cycleToNextUnit(Cur))

NextTurn ==
  \/ \E p \in Pos : HandleTileClick(p[1], p[2])
  \/ EndTurn
  \/ CycleToNextUnit

Init == InitTurn /\ Game2Unmounted

Next == NextTurn

Spec == Init /\ [][Next]_vars

----------------------------------------------------------------------------
(* Properties of the per-turn match (Spec)                                 *)

\* C1: turn alternation.  End Turn hands the turn to the other of the two
\* factions (so a second End Turn hands it back), and no other command
\* changes currentPlayer.
C1_TurnAlternation ==
  [][/\ EndTurn => currentPlayer' \in Players \ {currentPlayer}
     /\ ((\E p \in Pos : HandleTileClick(p[1], p[2])) \/ CycleToNextUnit)
          => currentPlayer' = currentPlayer]_vars

\* Red holds the turn again: two End Turns have been taken.
C1_BackToRed ==
  currentPlayer = "Red" /\ gameStatus = Status("'s turn", "Red", 0)

\* C2: win detection is terminal.  Once a faction has no unit left, no
\* command changes the board, the current faction or the status.
C2_WinIsTerminal ==
  [][(unitsLeft(grid, "Red") = 0 \/ unitsLeft(grid, "Blue") = 0)
       => UNCHANGED <<grid, currentPlayer, gameStatus>>]_vars

\* C3: capture flips ownership.  When an Infantry makes its second capture
\* on a city without having moved in between, the city is owned by the
\* Infantry's faction and its captureProgress is 0.
C3_CaptureFlips ==
  [][\A id \in UnitIds :
       captureRun[id] = 1 /\ captureRun'[id] = 2
         => /\ cityTerrain'.owner = selectedUnit.player
            /\ cityTerrain'.captureProgress = JsNum(0)]_vars

\* C8, as amended: every resolved attack deals damage d with d <= h and
\* d >= min(10, h), where h is the defender's health before the attack.
C8_DamageBounds ==
  lastAttack.op = "attack"
    => /\ lastAttack.damage <= lastAttack.defender.health
       /\ lastAttack.damage >= Min(10 * Cent, lastAttack.defender.health)

\* An attack was resolved on a defender with less than 10 health.
C8_WeakDefenderHit ==
  lastAttack.op = "attack" /\ lastAttack.defender.health < 10 * Cent

\* C8, as stated: every resolved attack deals damage d with 10 <= d <= h.
C8_DamageAtLeastTen ==
  lastAttack.op = "attack"
    => /\ 10 * Cent <= lastAttack.damage
       /\ lastAttack.damage <= lastAttack.defender.health

\* C11: per-turn action economy.  Since the last End Turn no unit has
\* executed more than one move, nor more than one attack-slot action
\* (attack or capture).
C11_ActionEconomy ==
  \A id \in DOMAIN turnActs :
    turnActs[id].moves <= 1 /\ turnActs[id].slots <= 1

\* A unit has moved and used its attack slot in the same turn.
C11_MovedAndAttacked ==
  \E id \in DOMAIN turnActs :
    turnActs[id].moves = 1 /\ turnActs[id].slots = 1

\* C12: after every End Turn, every unit of the faction about to play has
\* hasMoved = FALSE and hasAttacked = FALSE.
C12_FreshUnits ==
  [][EndTurn =>
       \A p \in Pos :
         (grid'[p].unit # NoUnit /\ grid'[p].unit.player = currentPlayer')
           => ~grid'[p].unit.hasMoved /\ ~grid'[p].unit.hasAttacked]_vars

\* Red is about to play again, and its Infantry, which has left its initial
\* tile in an earlier turn, is free to move.
C12_RedInfantryFresh ==
  /\ currentPlayer = "Red"
  /\ gameStatus = Status("'s turn", "Red", 0)
  /\ \E p \in Pos \ {<<1, 0>>} :
       /\ grid[p].unit # NoUnit
       /\ grid[p].unit.id = "RI"
       /\ ~grid[p].unit.hasMoved

\* C15: the board and its units agree.  Each unit's position field is the
\* coordinates of the tile that holds it, and no unit id is on two tiles.
C15_CrossReference ==
  \A p \in Pos :
    grid[p].unit # NoUnit =>
      /\ grid[p].unit.position = p
      /\ \A q \in Pos :
           (grid[q].unit # NoUnit /\ grid[q].unit.id = grid[p].unit.id) => q = p

\* After moves, attacks and endTurn: the Red Infantry stands off its first
\* tile, both units have been hit and the turn is Blue's.
C15_MovedAttackedEnded ==
  /\ currentPlayer = "Blue"
  /\ \E p \in Pos \ {<<1, 0>>} :
       /\ grid[p].unit # NoUnit
       /\ grid[p].unit.id = "RI"
       /\ grid[p].unit.health < 100 * Cent
  /\ \E p \in Pos : grid[p].unit # NoUnit /\ grid[p].unit.id = "BT"
                       /\ grid[p].unit.health < 100 * Cent

\* C20: a capture uses the attack slot only.  A capture sets the unit's
\* hasAttacked and leaves its hasMoved and position as they were; it is only
\* executed by a unit that has neither attacked nor captured this turn, and
\* so is an attack; a unit that has not moved keeps its selection and its
\* movement range after the capture, and can still move.
C20_CaptureUsesAttackSlot ==
  [][\A id \in DOMAIN turnActs :
       LET at(g) == CHOOSE p \in Pos : g[p].unit # NoUnit /\ g[p].unit.id = id
           before == grid[at(grid)].unit
           after == grid'[at(grid')].unit
           slotUsed == turnActs'[id].slots = turnActs[id].slots + 1
       IN /\ slotUsed => turnActs[id].slots = 0 /\ ~before.hasAttacked
          /\ (slotUsed /\ lastAttack'.op # "attack") =>
               /\ after.hasAttacked
               /\ after.hasMoved = before.hasMoved
               /\ after.position = before.position
               /\ at(grid') = at(grid)
               /\ ~after.hasMoved =>
                    /\ selectedUnit' = after
                    /\ movementRange' = movementRange]_vars

\* The Red Infantry has captured on the city it started on and has then
\* moved off it: it never attacked, the Blue Tank being at full health.
C20_CapturedThenMoved ==
  /\ variant = "Game20"
  /\ currentPlayer = "Red"
  /\ turnActs["RI"] = [moves |-> 1, slots |-> 1]
  /\ \E p \in Pos :
       /\ grid[p].unit # NoUnit
       /\ grid[p].unit.id = "RI"
       /\ grid[p].terrain # "City"
       /\ grid[p].unit.hasMoved /\ grid[p].unit.hasAttacked
  /\ \E p \in Pos :
       /\ grid[p].unit # NoUnit
       /\ grid[p].unit.id = "BT"
       /\ grid[p].unit.health = 100 * Cent

\* C36: capture state is per tile.  A capture, or a progress reset on moving
\* away, on one city leaves the owner and the captureProgress read through
\* every other City tile unchanged.
C36_PerTileCapture ==
  [][\A id \in UnitIds :
       (captureRun'[id] > captureRun[id] \/ turnActs'[id].moves > turnActs[id].moves)
         => \A q \in Pos \ {selectedUnit.position} :
              isCity(variant, grid[q].terrain)
                => /\ isCity(variant, grid'[q].terrain)
                   /\ cityTerrain'.owner = cityTerrain.owner
                   /\ cityTerrain'.captureProgress = cityTerrain.captureProgress]_vars

\* C37: the selection is a faithful snapshot.  Whenever a unit is selected,
\* selectedUnit equals the unit the grid holds at the snapshot's position
\* (same id, health, position and flags).
C37_SelectionSnapshot ==
  selectedUnit # NoUnit =>
    /\ selectedUnit.position \in Pos
    /\ grid[selectedUnit.position].unit = selectedUnit

\* A unit is still selected after captureCity has written it back.
C37_SelectedAfterCapture ==
  /\ selectedUnit # NoUnit
  /\ selectedUnit.hasAttacked
  /\ captureRun[selectedUnit.id] >= 1
  /\ isCity(variant, grid[selectedUnit.position].terrain)

----------------------------------------------------------------------------
(* SpecFirstTurn: Red's first turn with two units against one              *)

\* The units the match of SpecFirstTurn starts with.
FirstTurnRoster == {"RI", "RT", "BI"}

InitFirstTurn ==
  /\ Game2Unmounted
  /\ variant \in Variants
  /\ grid = initializeGame(TwoCityMap, FirstTurnRoster)
  /\ cityTerrain = [owner |-> "undefined", captureProgress |-> JsUndefined]
  /\ selectedUnit = NoUnit
  /\ currentPlayer = "Red"
  /\ movementRange = {}
  /\ attackRange = {}
  /\ gameStatus = Status("Select a unit to move", "", 0)
  /\ resources = [p \in Players |-> 1000]
  /\ lastAttack = NoAttack
  /\ captureRun = [id \in UnitIds |-> 0]
  /\ turnActs = [id \in UnitIds |-> NoActs]
  /\ road = NoRoad

\* The commands of a turn: every click and the Next Unit button, no End Turn.
NextFirstTurn ==
  \/ \E p \in Pos : HandleTileClick(p[1], p[2])
  \/ CycleToNextUnit

SpecFirstTurn == InitFirstTurn /\ [][NextFirstTurn]_vars

\* C13: every attack is validated against targeting.  Whenever attackUnit
\* has run, the target held an enemy unit whose Manhattan distance from the
\* attacker's position is between 1 and the attacker's own attackRange.
C13_AttackInRange ==
  lastAttack.op = "attack" =>
    /\ lastAttack.defender.player # lastAttack.unit.player
    /\ Distance(lastAttack.unit.position, lastAttack.target) >= 1
    /\ Distance(lastAttack.unit.position, lastAttack.target)
         <= UNIT_TYPES[lastAttack.unit.type].attackRange

\* C16: a rejected selection leaves the state unchanged.  handleUnitSelect
\* on a unit of the faction that is not acting, or on an own unit that has
\* both moved and attacked, changes the status message and nothing else: the
\* grid, the selected unit, both cached ranges and currentPlayer stay.
C16_RejectedSelection ==
  \A p \in Pos :
    LET unit == grid[p].unit
        after == handleUnitSelect(Cur, p[1], p[2])
    IN (/\ unit # NoUnit
        /\ \/ unit.player # currentPlayer
           \/ unit.hasMoved /\ unit.hasAttacked)
         => /\ after.grid = grid
            /\ after.selectedUnit = selectedUnit
            /\ after.movementRange = movementRange
            /\ after.attackRange = attackRange
            /\ after.currentPlayer = currentPlayer
            /\ [after EXCEPT !.gameStatus = gameStatus] = Cur

\* The click on a unit that has moved and attacked was rejected while
\* another unit was selected with its movement range cached.
C16_RejectedWhileSelected ==
  /\ gameStatus = Status("This unit has already moved and attacked this turn", "", 0)
  /\ selectedUnit # NoUnit
  /\ movementRange # {}
  /\ \E p \in Pos : /\ grid[p].unit # NoUnit
                     /\ grid[p].unit.player = currentPlayer
                     /\ grid[p].unit.hasMoved /\ grid[p].unit.hasAttacked

----------------------------------------------------------------------------
(* SpecDuel: an Infantry against an Artillery that stands on a Forest      *)

\* An outcome of generateInitialGrid: the road down column 0, a Forest and
\* Plain elsewhere.
ForestMap ==
  [p \in Pos |-> IF p[1] = 0 THEN "Road"
                 ELSE IF p = <<1, GRID_SIZE - 1>> THEN "Forest"
                 ELSE "Plain"]

\* A position of a match of Game.tsx in which the other units are destroyed,
\* the Blue Artillery has walked onto the Forest and the turn is Red's again:
\* both units are at full health with their flags reset by endTurn.
InitDuel ==
  /\ Game2Unmounted
  /\ variant = "Game"
  /\ grid = [p \in Pos |->
              [terrain |-> ForestMap[p],
               unit |-> IF p = <<1, 0>>
                          THEN createUnit("RI", "Infantry", p, "Red")
                        ELSE IF p = <<1, GRID_SIZE - 1>>
                          THEN createUnit("BA", "Artillery", p, "Blue")
                        ELSE NoUnit]]
  /\ cityTerrain = [owner |-> "undefined", captureProgress |-> JsUndefined]
  /\ selectedUnit = NoUnit
  /\ currentPlayer = "Red"
  /\ movementRange = {}
  /\ attackRange = {}
  /\ gameStatus = Status("'s turn", "Red", 0)
  /\ resources = [p \in Players |-> 1000]
  /\ lastAttack = NoAttack
  /\ captureRun = [id \in UnitIds |-> 0]
  /\ turnActs = [id \in UnitIds |-> NoActs]
  /\ road = NoRoad

NextDuel ==
  \/ \E p \in Pos : HandleTileClick(p[1], p[2])
  \/ EndTurn

SpecDuel == InitDuel /\ [][NextDuel]_vars

\* C14: the health invariant of both damage models.  Every unit on a board
\* has health in 1..100, so no tile holds a unit with health 0 or less.
C14_HealthRange ==
  /\ \A p \in DOMAIN grid :
       grid[p].unit # NoUnit =>
         grid[p].unit.health >= 1 * Cent /\ grid[p].unit.health <= 100 * Cent
  /\ \A p \in DOMAIN grid2 :
       grid2[p].unit # NoUnit2 =>
         grid2[p].unit.hp >= 1 /\ grid2[p].unit.hp <= FullHp

\* C29: the frame of an attack.  An executed attack sets the attacker's
\* hasAttacked and leaves its position, health and hasMoved as they were,
\* lowers the defender's health or removes the defender, and leaves the unit
\* of every other tile, all terrain and currentPlayer unchanged.
C29_AttackFrame ==
  [][lastAttack'.op = "attack" =>
       LET from == lastAttack'.unit.position
           to == lastAttack'.target
       IN /\ from # to
          /\ grid[from].unit # NoUnit
          /\ grid[from].unit.id = lastAttack'.unit.id
          /\ grid'[from].unit = [grid[from].unit EXCEPT !.hasAttacked = TRUE]
          /\ grid[to].unit # NoUnit
          /\ \/ grid'[to].unit = NoUnit
             \/ /\ grid'[to].unit
                     = [grid[to].unit EXCEPT !.health = grid'[to].unit.health]
                /\ grid'[to].unit.health < grid[to].unit.health
          /\ \A p \in Pos \ {from, to} : grid'[p].unit = grid[p].unit
          /\ \A p \in Pos : grid'[p].terrain = grid[p].terrain
          /\ cityTerrain' = cityTerrain
          /\ currentPlayer' = currentPlayer]_vars

\* An attack was executed that the defender survived.
C29_DefenderSurvived ==
  /\ lastAttack.op = "attack"
  /\ grid[lastAttack.unit.position].unit.hasAttacked
  /\ grid[lastAttack.target].unit # NoUnit
  /\ grid[lastAttack.target].unit.health < lastAttack.defender.health

\* C30: the match-end check.  Right after every resolved attack the status
\* announces that a faction wins exactly when the other faction has no unit
\* on the board, and the announced winner is the attacker's faction.
C30_MatchEnd ==
  lastAttack.op = "attack" =>
    /\ \A f \in Players :
         gameStatus = Status("wins!", f, 0)
           <=> unitsLeft(grid, OtherPlayer(f)) = 0
    /\ gameStatus.msg = "wins!" => gameStatus.who = lastAttack.unit.player

\* An attack has destroyed the last unit of a faction.
C30_LastUnitDestroyed ==
  /\ lastAttack.op = "attack"
  /\ gameStatus.msg = "wins!"
  /\ grid[lastAttack.target].unit = NoUnit
  /\ unitsLeft(grid, lastAttack.defender.player) = 0

\* C31: turn-start income.  Each endTurn raises the resources of the faction
\* about to play by 100 times the number of city tiles it owns at that moment
\* and leaves the other faction's resources unchanged; no other command
\* changes resources.
C31_TurnStartIncome ==
  [][IF currentPlayer' # currentPlayer
       THEN LET owned == {p \in Pos : /\ isCity(variant, grid[p].terrain)
                                      /\ cityTerrain.owner = currentPlayer'}
            IN resources' = [resources EXCEPT
                               ![currentPlayer'] = @ + 100 * Cardinality(owned)]
       ELSE resources' = resources]_vars

\* In the 20x20 variant's code, Red's Infantry has tried to capture a city and
\* the turn has passed to Blue.
C31_TurnPassedAfterCapture ==
  /\ variant = "Game20"
  /\ currentPlayer = "Blue"
  /\ gameStatus = Status("'s turn", "Blue", 0)
  /\ cityTerrain.captureProgress = JsNaN
  /\ \E p \in Pos : isCity(variant, grid[p].terrain)

----------------------------------------------------------------------------
(* SpecCities: a match of the 20x20 variant on the grid initializeGrid     *)
(* builds, whose City tiles carry an owner and a captureProgress of 0      *)

\* initializeGrid gives the first City of the top OwnerBand rows to Red and
\* the first City of the bottom OwnerBand rows to Blue (3 rows of 20).
OwnerBand == 1

\* Resources up to which the match is followed.
MaxFunds == 1200

CityRosters == {{"RI", "BI"}}

\* Where the one City tile can lie: under the Red Infantry in the top band,
\* in the middle row, or in the bottom band.
CityTiles == {<<1, 0>>, <<1, 1>>, <<GRID_SIZE - 1, GRID_SIZE - 1>>}

\* initializeGrid on a map with the one City tile c: <<grid, City object>>.
\* Every City tile gets an object of its own; with one City tile that object
\* is the only one.
initializeGrid(c, roster) ==
  LET map == [p \in Pos |-> IF p = c THEN "City" ELSE "Plain"]
      owner == IF c[2] < OwnerBand THEN "Red"
               ELSE IF c[2] >= GRID_SIZE - OwnerBand THEN "Blue"
               ELSE "null"
  IN <<initializeGame(map, roster),
       [owner |-> owner, captureProgress |-> JsNum(0)]>>

InitCities ==
  /\ Game2Unmounted
  /\ variant = "Game20"
  /\ \E c \in CityTiles, roster \in CityRosters :
       /\ grid = initializeGrid(c, roster)[1]
       /\ cityTerrain = initializeGrid(c, roster)[2]
  /\ selectedUnit = NoUnit
  /\ currentPlayer = "Red"
  /\ movementRange = {}
  /\ attackRange = {}
  /\ gameStatus = Status("Select a unit to move", "", 0)
  /\ resources = [p \in Players |-> 1000]
  /\ lastAttack = NoAttack
  /\ captureRun = [id \in UnitIds |-> 0]
  /\ turnActs = [id \in UnitIds |-> NoActs]
  /\ road = NoRoad

NextCities ==
  \/ \E p \in Pos : HandleTileClick(p[1], p[2])
  \/ (\A p \in Players : resources[p] < MaxFunds) /\ EndTurn
  \/ CycleToNextUnit

SpecCities == InitCities /\ [][NextCities]_vars

\* C32: moving off a city under capture.  When a unit moves away from a city
\* whose owner is not the unit's faction and whose captureProgress is above 0,
\* the city's captureProgress becomes 0 and its owner is unchanged; moving off
\* a city of the unit's own faction changes neither.
C32_MoveOffResets ==
  [][\A from \in Pos :
       (/\ grid[from].unit # NoUnit
        /\ grid'[from].unit = NoUnit
        /\ \E to \in Pos \ {from} : /\ grid'[to].unit # NoUnit
                                     /\ grid'[to].unit.id = grid[from].unit.id
        /\ isCity(variant, grid[from].terrain))
         => /\ (/\ cityTerrain.owner # grid[from].unit.player
                /\ JsGT(cityTerrain.captureProgress, 0))
                 => /\ cityTerrain'.captureProgress = JsNum(0)
                    /\ cityTerrain'.owner = cityTerrain.owner
            /\ cityTerrain.owner = grid[from].unit.player
                 => cityTerrain' = cityTerrain]_vars

\* The Red Infantry has used this turn's action slot and its move, stands on
\* no city and has never attacked the Blue Infantry: it captured on Blue's
\* city and then moved off, and the city is Blue's at captureProgress 0.
C32_LeftEnemyCity ==
  /\ cityTerrain = [owner |-> "Blue", captureProgress |-> JsNum(0)]
  /\ \E p \in Pos : /\ grid[p].unit # NoUnit
                     /\ grid[p].unit.id = "BI"
                     /\ grid[p].unit.health = 100 * Cent
  /\ \E p \in Pos : /\ grid[p].unit # NoUnit
                     /\ grid[p].unit.id = "RI"
                     /\ grid[p].unit.hasMoved /\ grid[p].unit.hasAttacked
                     /\ ~isCity(variant, grid[p].terrain)
                     /\ turnActs["RI"] = [moves |-> 1, slots |-> 1]
  /\ \A p \in Pos : isCity(variant, grid[p].terrain) => grid[p].unit = NoUnit

----------------------------------------------------------------------------
(* SpecRoads: the road loops of generateInitialGrid                        *)

\* Side of the board the road loops run on (GRID_SIZE in the source).
RoadSize == 5

\* Game.tsx carves one road down the rows; Game2.tsx also carves roads along
\* the columns.
RoadAxes(v) == IF v = "Game" THEN {"vertical"} ELSE {"vertical", "horizontal"}

\* What the two Math.random() tests of an iteration can add to the cursor.
roadShifts(r, size) == IF r.at > 0 /\ r.at < size - 1 THEN {-1, 0, 1} ELSE {0}

\* One iteration of a road loop: the tile at the cursor becomes Road, then
\* the cursor moves by shift.
carveRoad(r, shift) ==
  LET along == Len(r.tiles)
      tile == IF r.axis = "vertical" THEN <<r.at, along>> ELSE <<along, r.at>>
  IN [r EXCEPT !.tiles = Append(@, tile), !.at = @ + shift]

\* generateInitialGrid has drawn the start of a road; the page holds the
\* values of its useState calls.
InitRoads ==
  /\ Game2Unmounted
  /\ variant \in Variants
  /\ grid = <<>>
  /\ cityTerrain = [owner |-> "undefined", captureProgress |-> JsUndefined]
  /\ selectedUnit = NoUnit
  /\ currentPlayer = "Red"
  /\ movementRange = {}
  /\ attackRange = {}
  /\ gameStatus = Status("Select a unit to move", "", 0)
  /\ resources = [p \in Players |-> 1000]
  /\ lastAttack = NoAttack
  /\ captureRun = <<>>
  /\ turnActs = <<>>
  /\ \E axis \in RoadAxes(variant), start \in 0 .. RoadSize - 1 :
       road = [axis |-> axis, at |-> start, tiles |-> <<>>]

CarveRoad ==
  /\ Len(road.tiles) < RoadSize
  /\ \E shift \in roadShifts(road, RoadSize) : road' = carveRoad(road, shift)
  /\ UNCHANGED <<variant, grid, cityTerrain, selectedUnit, currentPlayer,
                 movementRange, attackRange, gameStatus, resources, lastAttack,
                 captureRun, turnActs>>
  /\ UNCHANGED apVars

NextRoads == CarveRoad

SpecRoads == InitRoads /\ [][NextRoads]_vars

\* C33: road carving.  Every road stays within the grid, has exactly one tile
\* in each row (a vertical road) or column (a horizontal road), and is a
\* 4-directionally contiguous corridor from one edge to the opposite edge.
C33_RoadCarving ==
  LET n == Len(road.tiles)
      along(t) == IF road.axis = "vertical" THEN t[2] ELSE t[1]
  IN /\ \A i \in 1 .. n :
          /\ road.tiles[i] \in (0 .. RoadSize - 1) \X (0 .. RoadSize - 1)
          /\ along(road.tiles[i]) = i - 1
     /\ \A i \in 1 .. n - 1 : Distance(road.tiles[i], road.tiles[i + 1]) = 1

----------------------------------------------------------------------------
(* SpecTargets: calculateAttackRange on boards of every unit type          *)

\* Units on the board besides the one whose targets are computed.
MaxOthers == 2

\* The id createUnit would give a unit first placed on tile p.
unitIdAt(p) == "unit-" \o ToString(p[1]) \o "-" \o ToString(p[2])

\* A plain board with a unit of any type that has moved, and up to MaxOthers
\* Infantry of either player on other tiles.
InitTargets ==
  /\ Game2Unmounted
  /\ variant \in Variants
  /\ \E type \in UnitTypeNames, at \in Pos, player \in Players :
       \E others \in {S \in SUBSET (Pos \ {at}) : Cardinality(S) <= MaxOthers} :
         \E side \in [others -> Players] :
           grid = [p \in Pos |->
                    [terrain |-> "Plain",
                     unit |-> IF p = at
                                THEN [createUnit(unitIdAt(p), type, p, player)
                                        EXCEPT !.hasMoved = TRUE]
                              ELSE IF p \in others
                                THEN createUnit(unitIdAt(p), "Infantry", p, side[p])
                              ELSE NoUnit]]
  /\ cityTerrain = [owner |-> "undefined", captureProgress |-> JsUndefined]
  /\ selectedUnit = NoUnit
  /\ currentPlayer \in Players
  /\ movementRange = {}
  /\ attackRange = {}
  /\ gameStatus = Status("'s turn", currentPlayer, 0)
  /\ resources = [p \in Players |-> 1000]
  /\ lastAttack = NoAttack
  /\ captureRun = [id \in UnitIds |-> 0]
  /\ turnActs = [id \in UnitIds |-> NoActs]
  /\ road = NoRoad

\* calculateAttackRange for a unit of the board; selectedUnit records the unit.
CalculateAttackRange ==
  \E p \in Pos :
    /\ grid[p].unit # NoUnit
    /\ selectedUnit' = grid[p].unit
    /\ attackRange' = calculateAttackRange(grid, grid[p].unit)
    /\ UNCHANGED <<variant, grid, cityTerrain, currentPlayer, movementRange,
                   gameStatus, resources, lastAttack, captureRun, turnActs,
                   road>>
    /\ UNCHANGED apVars

NextTargets == CalculateAttackRange

SpecTargets == InitTargets /\ [][NextTargets]_vars

\* C28: per-turn targeting.  calculateAttackRange returns exactly the tiles of
\* the board that hold a unit of the other faction at Manhattan distance at
\* most the unit's attackRange, and the empty set for an APC (attackRange 0).
C28_Targeting ==
  selectedUnit # NoUnit =>
    /\ attackRange
         = {p \in Pos : /\ grid[p].unit # NoUnit
                        /\ grid[p].unit.player # selectedUnit.player
                        /\ Distance(p, selectedUnit.position)
                             <= UNIT_TYPES[selectedUnit.type].attackRange}
    /\ selectedUnit.type = "APC" => attackRange = {}

\* The targets of an Artillery in a corner were computed with one enemy three
\* steps away and another in the opposite corner, four steps away.
C28_ArtilleryCorner ==
  /\ selectedUnit # NoUnit
  /\ selectedUnit.type = "Artillery"
  /\ selectedUnit.position = <<0, 0>>
  /\ grid[<<2, 1>>].unit # NoUnit /\ grid[<<2, 1>>].unit.player # selectedUnit.player
  /\ grid[<<2, 2>>].unit # NoUnit /\ grid[<<2, 2>>].unit.player # selectedUnit.player
  /\ attackRange = {<<2, 1>>}

----------------------------------------------------------------------------
(* Commands of the action-point page                                       *)

\* What Math.floor can return if the click on <<x, y>> performs an attack.
floorsAt(s, x, y) ==
  IF /\ s.selectedCell # NoCell
     /\ s.grid[s.selectedCell].unit # NoUnit2
     /\ s.grid[<<x, y>>].unit # NoUnit2
    THEN floorOutcomes(damageTimes20000(s.grid[s.selectedCell].unit,
                                        s.grid[<<x, y>>].unit,
                                        s.grid[<<x, y>>].terrain))
    ELSE {0}

HandleCellClick(x, y) ==
  /\ \E floored \in floorsAt(Cur2, x, y) :
       Apply2(handleCellClick(Cur2, gridSize, x, y, floored))
  /\ UNCHANGED clock

RecoveryTick(now) ==
  /\ Apply2(recoveryTick(Cur2, now))
  /\ clock' = now

SwitchPlayer ==
  /\ Apply2(switchPlayer(Cur2))
  /\ UNCHANGED clock

\* The buttons of the buy menu are rendered while it is shown; a button is
\* disabled when the gold does not cover the cost.
BuyUnit ==
  /\ showBuyMenu /\ buyMenuCell # NoCell
  /\ \E unitType \in UnitTypeNames2 :
       /\ gold[currentPlayer2] >= UNIT_STATS[unitType].cost
       /\ Apply2(buyUnit(Cur2, unitType))
  /\ UNCHANGED clock

CancelBuy ==
  /\ showBuyMenu /\ buyMenuCell # NoCell
  /\ Apply2(cancelBuy(Cur2))
  /\ UNCHANGED clock

\* The income interval fires INCOME_INTERVAL ms after the previous tick.
IncomeTick ==
  /\ Apply2(incomeTick(Cur2, incomeGold))
  /\ clock' = clock + INCOME_INTERVAL

\* The state of the mounted Game2 page apart from the board and the points.
Game2Mounted ==
  /\ selectedCell = NoCell
  /\ validMoves = {}
  /\ validAttacks = {}
  /\ gold = [p \in Players2 |-> 10000]
  /\ showBuyMenu = FALSE
  /\ buyMenuCell = NoCell
  /\ currentPlayer2 = 1
  /\ lastApRecovery = [p \in Players2 |-> 0]
  /\ timeUntilNextAP = [p \in Players2 |-> 60]
  /\ clock = 0
  /\ incomeGold = gold
  /\ lastAttack2 = NoAttack2
  /\ window = NoWindow

----------------------------------------------------------------------------
(* SpecMoves: calculateValidMoves on every small board                     *)

MovesWidth == 4

MovesHeight == 3

\* At most this many mountain tiles on a board of SpecMoves.
MaxMountains == 2

\* The movement budgets compared are 0 .. MaxBudget + 1.
MaxBudget == 6

MovesSize == [width |-> MovesWidth, height |-> MovesHeight]

\* A board with mountains, a unit of player 1 and at most one other unit.
InitMoves ==
  /\ GameUnmounted
  /\ Game2Mounted
  /\ gridSize = MovesSize
  /\ actionPoints = [p \in Players2 |-> MAX_ACTION_POINTS]
  /\ \E mountains \in {m \in SUBSET Pos2(MovesSize) : Cardinality(m) <= MaxMountains},
        origin \in Pos2(MovesSize),
        type \in UnitTypeNames2,
        other \in Pos2(MovesSize) \cup {NoCell},
        otherPlayer \in Players2 :
       /\ other # origin
       /\ grid2 = [p \in Pos2(MovesSize) |->
                     Tile2(IF p \in mountains THEN "mountain" ELSE "plain",
                           NoPlayer,
                           IF p = origin THEN Unit2(type, 1, FullHp)
                           ELSE IF p = other THEN Unit2("infantry", otherPlayer, FullHp)
                           ELSE NoUnit2)]

\* A click on a unit while nothing is selected.
SelectUnit ==
  /\ selectedCell = NoCell
  /\ \E p \in Pos2(gridSize) :
       /\ grid2[p].unit # NoUnit2
       /\ HandleCellClick(p[1], p[2])

NextMoves == SelectUnit

SpecMoves == InitMoves /\ [][NextMoves]_vars

\* C4: reachability is origin-exclusive.  The set calculateValidMoves
\* returned for the selected unit never contains the unit's own tile.
C4_OriginExcluded ==
  selectedCell # NoCell => selectedCell \notin validMoves

\* C5: budget monotonicity.  From the selected unit's tile, every tile the
\* search marks with movement budget m it also marks with budget m + 1.
C5_BudgetMonotone ==
  selectedCell # NoCell =>
    LET marked == [m \in 0 .. MaxBudget + 1 |->
                     validMovesWithin(grid2, gridSize, selectedCell[1], selectedCell[2], m)]
    IN \A m \in 0 .. MaxBudget : marked[m] \subseteq marked[m + 1]

\* C25: the search is exact for path existence.  For the selected unit,
\* calculateValidMoves marks a tile other than the origin iff a 4-connected
\* path leads from the origin to it through in-bounds tiles not occupied by
\* an enemy unit, with cumulative entry cost (2 for mountain, 1 otherwise)
\* <= the unit's movement value.
C25_ExactReachability ==
  selectedCell # NoCell =>
    LET origin == selectedCell
        unit == grid2[origin].unit
        movement == UNIT_STATS[unit.type].movement
        passable(p) == grid2[p].unit = NoUnit2 \/ grid2[p].unit.player = unit.player
        entryCost(p) == IF grid2[p].terrain = "mountain" THEN 2 ELSE 1
        adjacent(p, q) == Abs(p[1] - q[1]) + Abs(p[2] - q[2]) = 1
        \* the tiles some path reaches with cumulative cost <= budget
        within[budget \in 0 .. movement] ==
          IF budget = 0 THEN {origin}
          ELSE within[budget - 1] \cup
               {p \in Pos2(gridSize) :
                  /\ passable(p)
                  /\ budget >= entryCost(p)
                  /\ \E q \in within[budget - entryCost(p)] : adjacent(p, q)}
    IN validMoves \ {origin} = within[movement] \ {origin}

\* C26: the search is sound.  Every tile calculateValidMoves marks for the
\* selected unit is in bounds, is not occupied by an enemy unit and is
\* connected to the origin by a 4-directional path of marked tiles whose
\* cumulative cost is <= the movement value; hence its Manhattan distance
\* from the origin is <= the movement value.
C26_SoundReachability ==
  selectedCell # NoCell =>
    LET origin == selectedCell
        unit == grid2[origin].unit
        movement == UNIT_STATS[unit.type].movement
        entryCost(p) == IF grid2[p].terrain = "mountain" THEN 2 ELSE 1
        adjacent(p, q) == Abs(p[1] - q[1]) + Abs(p[2] - q[2]) = 1
        \* along(budget)[b + 1]: the marked tiles a path of marked tiles
        \* reaches with cumulative cost <= b, for b in 0 .. budget
        RECURSIVE along(_)
        along(budget) ==
          IF budget = 0 THEN <<{origin}>>
          ELSE LET below == along(budget - 1)
               IN Append(below,
                         below[budget] \cup
                         {p \in validMoves :
                            /\ budget >= entryCost(p)
                            /\ \E q \in below[budget - entryCost(p) + 1] :
                                 adjacent(p, q)})
        connected == along(movement)[movement + 1]
    IN \A p \in validMoves :
         /\ p \in Pos2(gridSize)
         /\ grid2[p].unit = NoUnit2 \/ grid2[p].unit.player = unit.player
         /\ p \in connected
         /\ Abs(p[1] - origin[1]) + Abs(p[2] - origin[2]) <= movement

\* A tank is selected next to an enemy unit: a mountain tile is marked, a
\* tile at Manhattan distance 5 is marked and the enemy's tile is not.
C26_TankAroundEnemy ==
  /\ selectedCell = <<0, 0>>
  /\ grid2[selectedCell].unit.type = "tank"
  /\ grid2[<<1, 0>>].unit # NoUnit2
  /\ grid2[<<1, 0>>].unit.player = 2
  /\ <<1, 0>> \notin validMoves
  /\ <<MovesWidth - 1, MovesHeight - 1>> \in validMoves
  /\ \E p \in validMoves : grid2[p].terrain = "mountain"

\* C27: the search terminates and expands each tile at most once.  On every
\* board, from the selected unit's tile and with the budgets 0, the unit's
\* own and MaxBudget + 1, the loop ends within as many iterations as the
\* board has tiles, no tile is dequeued (hence enqueued) twice, and the
\* dequeued tiles are the marked ones.
C27_SearchTerminates ==
  selectedCell # NoCell =>
    \A budget \in {0, UNIT_STATS[grid2[selectedCell].unit.type].movement,
                    MaxBudget + 1} :
      LET run == searchOrder(grid2, gridSize, grid2[selectedCell].unit,
                             [queue |-> <<[pos |-> selectedCell, movesLeft |-> budget]>>,
                              visited |-> {selectedCell}],
                             <<>>, Cardinality(Pos2(gridSize)))
      IN /\ run.finished
         /\ \A i \in DOMAIN run.order : \A j \in DOMAIN run.order :
              run.order[i] = run.order[j] => i = j
         /\ {run.order[i] : i \in DOMAIN run.order}
              = validMovesWithin(grid2, gridSize, selectedCell[1], selectedCell[2], budget)

\* A tank is selected on a board it can cross: the search has expanded every
\* tile, each of them reachable along several paths.
C27_WholeBoardSearched ==
  /\ selectedCell # NoCell
  /\ grid2[selectedCell].unit.type = "tank"
  /\ validMoves = Pos2(gridSize)
  /\ \E p \in Pos2(gridSize) : grid2[p].terrain = "mountain"

----------------------------------------------------------------------------
(* SpecAttacks: calculateValidAttacks on boards with up to three enemies   *)

AttacksWidth == 3

AttacksHeight == 7

AttacksSize == [width |-> AttacksWidth, height |-> AttacksHeight]

\* At most this many units of player 2 on a board of SpecAttacks.
MaxEnemies == 3

\* A plain board with a unit of player 1 and up to MaxEnemies infantry of
\* player 2, which stand in one column.  Seen from a unit of player 2 the
\* other units of player 2 are its own faction.
InitAttacks ==
  /\ GameUnmounted
  /\ Game2Mounted
  /\ gridSize = AttacksSize
  /\ actionPoints = [p \in Players2 |-> MAX_ACTION_POINTS]
  /\ \E origin \in Pos2(AttacksSize),
        type \in UnitTypeNames2,
        column \in 0 .. AttacksWidth - 1,
        rows \in {r \in SUBSET (0 .. AttacksHeight - 1) : Cardinality(r) <= MaxEnemies} :
       /\ origin \notin {column} \X rows
       /\ grid2 = [p \in Pos2(AttacksSize) |->
                     Tile2("plain", NoPlayer,
                           IF p = origin THEN Unit2(type, 1, FullHp)
                           ELSE IF p \in {column} \X rows THEN Unit2("infantry", 2, FullHp)
                           ELSE NoUnit2)]

NextAttacks == SelectUnit

SpecAttacks == InitAttacks /\ [][NextAttacks]_vars

\* C6: targeting.  For the selected unit, calculateValidAttacks marks a tile
\* iff its Manhattan distance d from the unit satisfies minRange <= d <=
\* maxRange, the tile holds a unit and that unit is of the other faction; an
\* artillery (range 2..3) at (2,2) has an enemy at (2,4) marked, and enemies
\* at (2,3) and (2,6) not marked.
C6_Targeting ==
  selectedCell # NoCell =>
    LET unit == grid2[selectedCell].unit
        stats == UNIT_STATS[unit.type]
        enemyAt(t) == /\ t \in Pos2(gridSize)
                      /\ grid2[t].unit # NoUnit2
                      /\ grid2[t].unit.player # unit.player
    IN /\ \A t \in Pos2(gridSize) :
            t \in validAttacks <=>
              /\ Distance(t, selectedCell) >= stats.minRange
              /\ Distance(t, selectedCell) <= stats.maxRange
              /\ enemyAt(t)
       /\ validAttacks \subseteq Pos2(gridSize)
       /\ (selectedCell = <<2, 2>> /\ stats.minRange = 2 /\ stats.maxRange = 3)
            => /\ enemyAt(<<2, 4>>) => <<2, 4>> \in validAttacks
               /\ <<2, 3>> \notin validAttacks
               /\ <<2, 6>> \notin validAttacks

\* The artillery at (2,2) is selected with enemies at (2,3), (2,4) and (2,6):
\* only (2,4) is marked.
C6_ArtilleryExample ==
  /\ selectedCell = <<2, 2>>
  /\ grid2[<<2, 2>>].unit.type = "artillery"
  /\ \A t \in {<<2, 3>>, <<2, 4>>, <<2, 6>>} : grid2[t].unit.player = 2
  /\ validAttacks = {<<2, 4>>}

----------------------------------------------------------------------------
(* SpecDamage: Model A on every catalog combination                        *)

\* Defender healths are the multiples of HealthStep hundredths up to 100.
HealthStep == 50

HealthValues == {k * HealthStep : k \in 1 .. ((100 * Cent) \div HealthStep)}

\* A board of plain tiles but for the defender's, with the attacker selected
\* next to the defender.
InitDamage ==
  /\ Game2Unmounted
  /\ variant \in Variants
  /\ \E attackerType \in UnitTypeNames, defenderType \in UnitTypeNames,
        terrain \in TerrainTypeNames, health \in HealthValues :
       LET attacker == [createUnit("attacker", attackerType, <<0, 0>>, "Red")
                          EXCEPT !.hasMoved = TRUE]
           defender == [createUnit("defender", defenderType, <<1, 0>>, "Blue")
                          EXCEPT !.health = health]
       IN /\ grid = [p \in Pos |->
                      [terrain |-> IF p = <<1, 0>> THEN terrain ELSE "Plain",
                       unit |-> IF p = <<0, 0>> THEN attacker
                                ELSE IF p = <<1, 0>> THEN defender
                                ELSE NoUnit]]
          /\ selectedUnit = attacker
          /\ attackRange = calculateAttackRange(grid, attacker)
  /\ cityTerrain = [owner |-> "undefined", captureProgress |-> JsUndefined]
  /\ currentPlayer = "Red"
  /\ movementRange = {}
  /\ gameStatus = Status("Select an enemy unit to attack", "", 0)
  /\ resources = [p \in Players |-> 1000]
  /\ lastAttack = NoAttack
  /\ captureRun = [id \in UnitIds |-> 0]
  /\ turnActs = [id \in {"attacker", "defender"} |-> NoActs]
  /\ road = NoRoad

\* attackUnit for the selected unit on an enemy unit.
AttackUnit ==
  /\ selectedUnit # NoUnit
  /\ \E p \in Pos :
       /\ grid[p].unit # NoUnit
       /\ grid[p].unit.player # selectedUnit.player
       /\ Apply(attackUnit(Cur, selectedUnit, p[1], p[2]))

NextDamage == AttackUnit

SpecDamage == InitDamage /\ [][NextDamage]_vars

\* C7: Model A.  The damage of a resolved attack is
\*   min(defender.health, max(10, attack - (defense + defense * bonus / 100)))
\* and the defender is left with its health less the damage; attack 55,
\* defense 10, bonus 20 on health 100 deals 43 and leaves 57.
C7_ModelA ==
  lastAttack.op = "attack" =>
    LET attack == UNIT_TYPES[lastAttack.unit.type].attack
        defense == UNIT_TYPES[lastAttack.defender.type].defense
        bonus == TERRAIN_TYPES[grid[lastAttack.target].terrain].defenseBonus
        health == lastAttack.defender.health
        left == IF grid[lastAttack.target].unit = NoUnit THEN 0
                ELSE grid[lastAttack.target].unit.health
    IN /\ lastAttack.damage
            = Min(health, Max(10 * Cent, attack * Cent - (defense * Cent + defense * bonus)))
       /\ left = health - lastAttack.damage
       /\ (attack = 55 /\ defense = 10 /\ bonus = 20 /\ health = 100 * Cent)
            => lastAttack.damage = 43 * Cent /\ left = 57 * Cent

\* An Infantry has attacked a full-health Infantry on a City tile.
C7_InfantryOnCity ==
  /\ lastAttack.op = "attack"
  /\ lastAttack.unit.type = "Infantry"
  /\ lastAttack.defender.type = "Infantry"
  /\ lastAttack.defender.health = 100 * Cent
  /\ grid[lastAttack.target].terrain = "City"
  /\ grid[lastAttack.target].unit.health = 57 * Cent

----------------------------------------------------------------------------
(* SpecPerformAttack: Model B on every attacker, defender, hp and terrain  *)

\* The attacker on <<0, 0>> is selected; the defender stands at the
\* attacker's minimum range.
InitPerformAttack ==
  /\ GameUnmounted
  /\ gridSize = [width |-> 3, height |-> 1]
  /\ actionPoints = [p \in Players2 |-> MAX_ACTION_POINTS]
  /\ \E attackerType \in UnitTypeNames2, defenderType \in UnitTypeNames2,
        attackerHp \in 1 .. FullHp, defenderHp \in 1 .. FullHp,
        terrain \in TerrainTypeNames2 :
       LET target == <<UNIT_STATS[attackerType].minRange, 0>>
       IN /\ grid2 = [p \in Pos2(gridSize) |->
                       Tile2(IF p = target THEN terrain ELSE "plain", NoPlayer,
                             IF p = <<0, 0>> THEN Unit2(attackerType, 1, attackerHp)
                             ELSE IF p = target THEN Unit2(defenderType, 2, defenderHp)
                             ELSE NoUnit2)]
  /\ selectedCell = <<0, 0>>
  /\ validMoves = calculateValidMoves(grid2, gridSize, 0, 0)
  /\ validAttacks = calculateValidAttacks(grid2, gridSize, 0, 0)
  /\ gold = [p \in Players2 |-> 10000]
  /\ showBuyMenu = FALSE
  /\ buyMenuCell = NoCell
  /\ currentPlayer2 = 1
  /\ lastApRecovery = [p \in Players2 |-> 0]
  /\ timeUntilNextAP = [p \in Players2 |-> 60]
  /\ clock = 0
  /\ incomeGold = gold
  /\ lastAttack2 = NoAttack2
  /\ window = NoWindow

\* A click on a marked target of the selected unit.
AttackClick ==
  \E p \in validAttacks : HandleCellClick(p[1], p[2])

NextPerformAttack == AttackClick

SpecPerformAttack == InitPerformAttack /\ [][NextPerformAttack]_vars

\* C9: Model B.  Every performed attack deals at least 1 damage: the
\* defender is removed or its hp is strictly lower than before.
C9_AtLeastOne ==
  lastAttack2.op = "attack" =>
    /\ lastAttack2.damage >= 1
    /\ \/ grid2[lastAttack2.to].unit = NoUnit2
       \/ grid2[lastAttack2.to].unit.hp < lastAttack2.defender.hp

\* A weakened infantry has attacked a full tank on a mountain: the formula
\* gives a negative number and the attack still costs the tank 1 hp.
C9_WeakOnStrong ==
  /\ lastAttack2.op = "attack"
  /\ lastAttack2.attacker.type = "infantry"
  /\ lastAttack2.defender.type = "tank"
  /\ grid2[lastAttack2.to].terrain = "mountain"
  /\ lastAttack2.attacker.hp = 1
  /\ lastAttack2.defender.hp = FullHp
  /\ lastAttack2.damage = 1
  /\ grid2[lastAttack2.to].unit.hp = FullHp - 1

----------------------------------------------------------------------------
(* SpecRecovery: the recovery interval                                     *)

\* The delays after which the next tick reads the clock: the period of the
\* interval, and the two sides of the recovery boundary.
TickDelays == {1000, AP_RECOVERY_INTERVAL - 1, AP_RECOVERY_INTERVAL}

\* Ticks are taken while the clock reads at most MaxClock ms.
MaxClock == 121000

InitRecovery ==
  /\ GameUnmounted
  /\ Game2Mounted
  /\ gridSize = [width |-> 1, height |-> 1]
  /\ grid2 = [p \in Pos2(gridSize) |-> Tile2("plain", NoPlayer, NoUnit2)]
  /\ actionPoints \in [Players2 -> 0 .. MAX_ACTION_POINTS]

Tick ==
  \E delay \in TickDelays :
    /\ clock + delay <= MaxClock
    /\ RecoveryTick(clock + delay)

NextRecovery == Tick

SpecRecovery == InitRecovery /\ [][NextRecovery]_vars

\* C10: recovery boundary.  A tick at time now gives a faction with fewer
\* than 10 points exactly 1 point and sets its timestamp to now iff
\* now - t0 >= 60000; otherwise points and timestamp stay (5/10 becomes 6/10
\* at t0 + 60000 and stays 5/10 at t0 + 59999).
C10_RecoveryBoundary ==
  [][\A player \in Players2 :
       actionPoints[player] < 10 =>
         IF clock' - lastApRecovery[player] >= 60000
           THEN /\ actionPoints'[player] = actionPoints[player] + 1
                /\ lastApRecovery'[player] = clock'
           ELSE /\ actionPoints'[player] = actionPoints[player]
                /\ lastApRecovery'[player] = lastApRecovery[player]]_vars

\* Player 1 recovered a point at exactly 60000 ms and a tick 59999 ms later
\* left it at 6/10.
C10_AtTheBoundary ==
  /\ actionPoints[1] = 6
  /\ lastApRecovery[1] = 60000
  /\ clock = 60000 + 59999

----------------------------------------------------------------------------
(* SpecPoints: a match of the action-point page on a small board           *)

PointsWidth == 4

PointsHeight == 1

PointsSize == [width |-> PointsWidth, height |-> PointsHeight]

\* Player 1 is taken up with this many points left.
PointsLeft == 2

\* Recovery ticks are taken while the clock reads at most PointsMaxClock ms.
PointsMaxClock == 60000

\* initializeGrid on the small board: the bases at the two ends with an
\* infantry on each, and a city next to the base of player 1.
PointsBoard ==
  [p \in Pos2(PointsSize) |->
     IF p = <<0, 0>>
       THEN Tile2("base", 1, Unit2("infantry", 1, FullHp))
     ELSE IF p = <<PointsWidth - 1, PointsHeight - 1>>
       THEN Tile2("base", 2, Unit2("infantry", 2, FullHp))
     ELSE IF p = <<1, 0>>
       THEN Tile2("city", NoPlayer, NoUnit2)
     ELSE Tile2("plain", NoPlayer, NoUnit2)]

\* The match after player 1 has walked back and forth until PointsLeft
\* points were left; player 2 holds the full pool.
InitPoints ==
  /\ GameUnmounted
  /\ Game2Mounted
  /\ gridSize = PointsSize
  /\ actionPoints = [p \in Players2 |-> IF p = 1 THEN PointsLeft
                                        ELSE MAX_ACTION_POINTS]
  /\ grid2 = PointsBoard

\* The ticks of the recovery interval that can change the points: the ones
\* in between only refresh the countdown.
PointsTick ==
  /\ clock + AP_RECOVERY_INTERVAL <= PointsMaxClock
  /\ RecoveryTick(clock + AP_RECOVERY_INTERVAL)

NextPoints ==
  \/ \E p \in Pos2(PointsSize) : HandleCellClick(p[1], p[2])
  \/ SwitchPlayer
  \/ PointsTick

SpecPoints == InitPoints /\ [][NextPoints]_vars

\* C17: the action-point pool.  Each faction's points stay in 0..10; every
\* executed move or attack lowers the acting faction's points by exactly 1
\* and leaves the other's as they were; with 0 points no move or attack is
\* executed, and the click that asked for one leaves the grid, the gold and
\* the points unchanged.
C17_ActionPoints ==
  [][LET acting == currentPlayer2
         other == IF currentPlayer2 = 1 THEN 2 ELSE 1
     IN /\ \A p \in Players2 :
             actionPoints'[p] >= 0 /\ actionPoints'[p] <= MAX_ACTION_POINTS
        /\ lastAttack2'.op \in {"move", "attack"} =>
             /\ actionPoints[acting] >= 1
             /\ actionPoints'[acting] = actionPoints[acting] - 1
             /\ actionPoints'[other] = actionPoints[other]
        /\ lastAttack2'.op = "refused" =>
             /\ actionPoints[acting] = 0
             /\ UNCHANGED <<grid2, gold, actionPoints>>
        /\ (actionPoints[acting] = 0 /\ clock' = clock) =>
             UNCHANGED <<grid2, gold, actionPoints>>]_vars

\* Player 1 has spent its last point on an attack that left both units on
\* the board, and its next attack click was refused.
C17_OutOfPoints ==
  /\ lastAttack2.op = "refused"
  /\ currentPlayer2 = 1
  /\ actionPoints[1] = 0
  /\ actionPoints[2] = MAX_ACTION_POINTS
  /\ \E p \in Pos2(gridSize) :
       /\ grid2[p].unit # NoUnit2
       /\ grid2[p].unit.player = 2
       /\ grid2[p].unit.hp < FullHp

----------------------------------------------------------------------------
(* SpecIncome: the match of SpecPoints with the buy menu and the income    *)

\* Income ticks are taken while the clock reads at most IncomeMaxClock ms.
IncomeMaxClock == 20000

\* The match after both players have walked back and forth until PointsLeft
\* points were left.
InitIncome ==
  /\ GameUnmounted
  /\ Game2Mounted
  /\ gridSize = PointsSize
  /\ actionPoints = [p \in Players2 |-> PointsLeft]
  /\ grid2 = PointsBoard

NextIncome ==
  \/ \E p \in Pos2(PointsSize) : HandleCellClick(p[1], p[2])
  \/ SwitchPlayer
  \/ BuyUnit
  \/ CancelBuy
  \/ clock + INCOME_INTERVAL <= IncomeMaxClock /\ IncomeTick

SpecIncome == InitIncome /\ [][NextIncome]_vars

\* C18: passive income accumulates.  Every income tick raises each faction's
\* gold by exactly 100 times the number of city and base tiles it owns,
\* relative to the gold immediately before the tick.
C18_IncomeAccumulates ==
  [][IncomeTick =>
       \A player \in Players2 :
         gold'[player]
           = gold[player] + 100 * Cardinality(ownedTiles(grid2, player))]_vars

\* C19: only Infantry capture.  The owner of a tile changes only by the
\* action of an infantry: after a command that changed a tile's owner, the
\* unit standing on that tile is an infantry.
C19_OnlyInfantryCapture ==
  [][\A p \in Pos2(gridSize) :
       grid2'[p].owner # grid2[p].owner =>
         /\ grid2'[p].unit # NoUnit2
         /\ grid2'[p].unit.type = "infantry"]_vars

\* C21: purchase funds.  No faction's gold is ever negative; a purchase
\* deducts exactly the cost of the bought type from the buyer's gold, leaves
\* the other faction's gold alone and places one unit of that type with hp
\* 100; buyUnit with gold below the cost leaves the grid and the gold of both
\* factions unchanged.
C21_PurchaseFunds ==
  [][/\ \A player \in Players2 : gold[player] >= 0 /\ gold'[player] >= 0
     /\ \A unitType \in UnitTypeNames2 :
          gold[currentPlayer2] < UNIT_STATS[unitType].cost =>
            /\ buyUnit(Cur2, unitType).grid = grid2
            /\ buyUnit(Cur2, unitType).gold = gold
     /\ BuyUnit =>
          \E unitType \in UnitTypeNames2 :
            /\ gold[currentPlayer2] >= UNIT_STATS[unitType].cost
            /\ gold' = [gold EXCEPT ![currentPlayer2]
                                      = @ - UNIT_STATS[unitType].cost]
            /\ grid2[buyMenuCell].unit = NoUnit2
            /\ grid2' = [grid2 EXCEPT ![buyMenuCell].unit
                                        = Unit2(unitType, currentPlayer2, 100)]]_vars

\* Player 1 has bought a tank and stands before the buy menu again with
\* 3000 gold, which does not cover another tank.
C21_TankBought ==
  /\ showBuyMenu
  /\ currentPlayer2 = 1
  /\ gold[1] = 10000 - UNIT_STATS["tank"].cost
  /\ \E p \in Pos2(gridSize) : grid2[p].unit = Unit2("tank", 1, FullHp)

\* C22: purchase location.  A purchased unit is spawned only on a base tile
\* that is unoccupied and owned by the faction that receives the unit and
\* pays for it.
C22_PurchaseLocation ==
  [][BuyUnit =>
       /\ grid2[buyMenuCell].terrain = "base"
       /\ grid2[buyMenuCell].unit = NoUnit2
       /\ grid2'[buyMenuCell].unit.player = grid2[buyMenuCell].owner
       /\ \A player \in Players2 :
            gold'[player] < gold[player] => player = grid2[buyMenuCell].owner]_vars

\* C38: the acting-faction gate.  Every executed move relocates a unit of
\* currentPlayer, every executed attack has an attacker of currentPlayer and
\* a defender of the other faction, and no step moves, damages or removes a
\* unit in any other way.
C38_ActingFaction ==
  [][/\ lastAttack2'.op = "attack" =>
          /\ grid2[lastAttack2'.from].unit = lastAttack2'.attacker
          /\ grid2[lastAttack2'.to].unit = lastAttack2'.defender
          /\ lastAttack2'.attacker.player = currentPlayer2
          /\ lastAttack2'.defender.player \in Players2 \ {currentPlayer2}
     /\ \A p \in Pos2(gridSize) :
          (grid2[p].unit # NoUnit2 /\ grid2'[p].unit # grid2[p].unit) =>
            \/ /\ lastAttack2'.op = "move"
               /\ grid2'[p].unit = NoUnit2
               /\ grid2[p].unit.player = currentPlayer2
            \/ /\ lastAttack2'.op = "attack"
               /\ p = lastAttack2'.to
               /\ grid2[p].unit.player # currentPlayer2]_vars

\* After Switch Player, a unit of player 2 has attacked a unit of player 1
\* while a unit bought at a base stands on the board.
C38_SecondPlayerAttacked ==
  /\ lastAttack2.op = "attack"
  /\ currentPlayer2 = 2
  /\ lastAttack2.attacker.player = 2
  /\ lastAttack2.defender.player = 1
  /\ \E p \in Pos2(gridSize) : \E q \in Pos2(gridSize) \ {p} :
       /\ grid2[p].unit # NoUnit2 /\ grid2[q].unit # NoUnit2
       /\ grid2[p].unit.player = grid2[q].unit.player

----------------------------------------------------------------------------
(* SpecTicks: both intervals interleaved with the commands                 *)

\* Both players are taken up with this many points left.
TicksPointsLeft == 1

\* The intervals fire while the clock reads at most TicksMaxClock ms.
TicksMaxClock == 60000

InitTicks ==
  /\ GameUnmounted
  /\ Game2Mounted
  /\ gridSize = PointsSize
  /\ actionPoints = [p \in Players2 |-> TicksPointsLeft]
  /\ grid2 = PointsBoard

\* The callback of the recovery interval at the time the clock reads, once a
\* recovery is due for some player: the earlier ones only refresh the
\* countdown.
RecoveryDue ==
  /\ \E player \in Players2 :
       clock - lastApRecovery[player] >= AP_RECOVERY_INTERVAL
  /\ RecoveryTick(clock)

NextTicks ==
  \/ \E p \in Pos2(PointsSize) : HandleCellClick(p[1], p[2])
  \/ SwitchPlayer
  \/ BuyUnit
  \/ CancelBuy
  \/ clock + INCOME_INTERVAL <= TicksMaxClock /\ IncomeTick
  \/ RecoveryDue

SpecTicks == InitTicks /\ [][NextTicks]_vars

\* C23: no update is lost under any interleaving of the two ticks and the
\* commands.  The values after each step hold the values before it and the
\* step's own update: 1 point less for the acting player after a move or an
\* attack, 1 point more after a recovery, the cost less after a purchase and
\* 100 per owned city or base more after an income tick.
C23_NoLostUpdate ==
  [][/\ lastAttack2'.op \in {"move", "attack"} =>
          /\ actionPoints' = [actionPoints EXCEPT ![currentPlayer2] = @ - 1]
          /\ gold' = gold
     /\ RecoveryDue =>
          /\ \A player \in Players2 :
               actionPoints'[player] =
                 IF /\ clock - lastApRecovery[player] >= AP_RECOVERY_INTERVAL
                    /\ actionPoints[player] < MAX_ACTION_POINTS
                   THEN actionPoints[player] + 1
                   ELSE actionPoints[player]
          /\ gold' = gold
     /\ BuyUnit =>
          /\ \E unitType \in UnitTypeNames2 :
               gold' = [gold EXCEPT ![currentPlayer2]
                                      = @ - UNIT_STATS[unitType].cost]
          /\ actionPoints' = actionPoints
     /\ IncomeTick =>
          /\ \A player \in Players2 :
               gold'[player]
                 = gold[player] + 100 * Cardinality(ownedTiles(grid2, player))
          /\ actionPoints' = actionPoints]_vars

----------------------------------------------------------------------------
(* SpecApp: the page the route shows, its board under every command        *)

\* Player 2 is taken up with this many points left.
AppPointsLeft == 4

\* App mounts one page: a per-turn match, or the action-point match after
\* the players have walked back and forth until these points were left.
InitApp ==
  \/ Init
  \/ /\ GameUnmounted
     /\ Game2Mounted
     /\ gridSize = PointsSize
     /\ actionPoints = [p \in Players2 |-> IF p = 1 THEN TicksPointsLeft
                                           ELSE AppPointsLeft]
     /\ grid2 = PointsBoard

\* The commands of the mounted page that can write its board.
NextApp ==
  \/ variant # "Game2" /\ NextTurn
  \/ /\ variant = "Game2"
     /\ \/ \E p \in Pos2(PointsSize) : HandleCellClick(p[1], p[2])
        \/ SwitchPlayer
        \/ BuyUnit
        \/ CancelBuy

SpecApp == InitApp /\ [][NextApp]_vars

\* The units on the board of the mounted page.
unitCount ==
  Cardinality({p \in DOMAIN grid : grid[p].unit # NoUnit})
    + Cardinality({p \in DOMAIN grid2 : grid2[p].unit # NoUnit2})

\* C24: no unit is silently dropped.  An executed move places the unit on a
\* tile that held no unit, empties the source tile and lands within
\* Manhattan distance <= the unit's movement range of the source; every
\* other tile keeps its unit; the number of units decreases only by an
\* attack that destroys the defender and increases only by a purchase.
C24_NoUnitDropped ==
  [][/\ \A id \in DOMAIN turnActs :
          turnActs'[id].moves = turnActs[id].moves + 1 =>
            \E from \in Pos : \E to \in Pos \ {from} :
              /\ grid[from].unit # NoUnit /\ grid[from].unit.id = id
              /\ grid[to].unit = NoUnit
              /\ grid'[from].unit = NoUnit
              /\ grid'[to].unit # NoUnit /\ grid'[to].unit.id = id
              /\ grid'[to].unit.health = grid[from].unit.health
              /\ Distance(from, to) <= UNIT_TYPES[grid[from].unit.type].moveRange
              /\ \A q \in Pos \ {from, to} : grid'[q].unit = grid[q].unit
     /\ lastAttack2'.op = "move" =>
          \E from \in Pos2(gridSize) : \E to \in Pos2(gridSize) \ {from} :
            /\ grid2[from].unit # NoUnit2
            /\ grid2[to].unit = NoUnit2
            /\ grid2'[from].unit = NoUnit2
            /\ grid2'[to].unit = grid2[from].unit
            /\ Abs(from[1] - to[1]) + Abs(from[2] - to[2])
                 <= UNIT_STATS[grid2[from].unit.type].movement
            /\ \A q \in Pos2(gridSize) \ {from, to} : grid2'[q].unit = grid2[q].unit
     /\ unitCount' < unitCount =>
          /\ unitCount' = unitCount - 1
          /\ \/ /\ lastAttack'.op = "attack"
                /\ grid'[lastAttack'.target].unit = NoUnit
                /\ lastAttack'.damage >= lastAttack'.defender.health
             \/ /\ lastAttack2'.op = "attack"
                /\ grid2'[lastAttack2'.to].unit = NoUnit2
                /\ lastAttack2'.damage >= lastAttack2'.defender.hp
     /\ unitCount' > unitCount =>
          /\ unitCount' = unitCount + 1
          /\ BuyUnit]_vars

\* The action-point page after a purchase, a move of the bought tank and an
\* attack that destroyed player 1's infantry.
C24_BoughtMovedDestroyed ==
  /\ variant = "Game2"
  /\ lastAttack2.op = "attack"
  /\ lastAttack2.attacker.type = "tank"
  /\ lastAttack2.from # <<PointsWidth - 1, PointsHeight - 1>>
  /\ grid2[lastAttack2.to].unit = NoUnit2

----------------------------------------------------------------------------
(* SpecRate: moves and attacks of a time window of the action-point page   *)

\* Recovery ticks are taken while the clock reads at most RateMaxClock ms.
RateMaxClock == 61000

\* The windows followed open at the mount or one recovery interval later.
WindowStarts == {0, AP_RECOVERY_INTERVAL}

\* The page as mounted, on the small board, with a window to follow.
InitRate ==
  /\ GameUnmounted
  /\ gridSize = PointsSize
  /\ grid2 = PointsBoard
  /\ actionPoints = [p \in Players2 |-> MAX_ACTION_POINTS]
  /\ selectedCell = NoCell
  /\ validMoves = {}
  /\ validAttacks = {}
  /\ gold = [p \in Players2 |-> 10000]
  /\ showBuyMenu = FALSE
  /\ buyMenuCell = NoCell
  /\ currentPlayer2 = 1
  /\ lastApRecovery = [p \in Players2 |-> 0]
  /\ timeUntilNextAP = [p \in Players2 |-> 60]
  /\ clock = 0
  /\ incomeGold = gold
  /\ lastAttack2 = NoAttack2
  /\ \E start \in WindowStarts : window = [NoWindow EXCEPT !.start = start]

\* The ticks of the recovery interval that can change the points: the one a
\* full interval after the mount and the ticks that follow it every second.
RateTick ==
  LET delay == IF clock < AP_RECOVERY_INTERVAL THEN AP_RECOVERY_INTERVAL - clock
               ELSE 1000
  IN /\ clock + delay <= RateMaxClock
     /\ RecoveryTick(clock + delay)

NextRate ==
  \/ \E p \in Pos2(PointsSize) : HandleCellClick(p[1], p[2])
  \/ RateTick

SpecRate == InitRate /\ [][NextRate]_vars

\* C34: the action-point rate limit.  Within a time window of length T a
\* faction executes at most 10 + floor(T / 60000) moves and attacks.
C34_RateLimit ==
  (window.start >= 0 /\ clock >= window.start) =>
    \A p \in Players2 :
      window.spent[p] <= 10 + ((clock - window.start) \div 60000)

====
